---- MODULE Spec2Model ----
(***************************************************************************)
(* A model of src/app.py, the Sortyx waste-classification backend: the     *)
(* pose-based hand/wrist detector with its person fallback, the            *)
(* /detect-hand-wrist endpoint that looks for an object in the hand        *)
(* region, and the /classify endpoint with its local and cloud paths.      *)
(*                                                                         *)
(* Units.  Keypoint and box coordinates are in half pixels (int() of the   *)
(* source is ToInt, a truncating division by two); confidences are in      *)
(* hundredths (0.30 is 30, 0.85 is 85).  Python dicts are records, a       *)
(* missing key is a field outside the record's DOMAIN, and Python's None   *)
(* is the record None.  A str that the code inspects is the sequence of    *)
(* its characters; one it only passes on is a sequence of pieces.          *)
(*                                                                         *)
(* Both endpoints are "async def" handlers without a single await, so the  *)
(* event loop runs each of them from its first line to its return without  *)
(* interleaving: one action each.                                          *)
(***************************************************************************)
EXTENDS Integers, Sequences, FiniteSets, TLC

VARIABLES
    pose_model,                 \* classifier.hand_detector.pose_model is loaded
    yolo_detection_model,       \* the global yolo_detection_model is loaded
    yolo_classification_model,  \* the global yolo_classification_model is loaded
    genai_client,               \* classifier.genai_client is set
    stats,                      \* classifier.stats
    phase,                      \* "idle", "detect", "classify", "parse", "map", "scan", "steps", "stages", "answered"
    input,                      \* the image in hand and what the collaborators answer for it
    hand_result,                \* hand_result of the /detect-hand-wrist handler
    payload,                    \* what /detect-hand-wrist returned
    result,                     \* result of the /classify handler (the verdict)
    response,                   \* what /classify returned
    verdicts,                   \* per classification_method, what was returned for this image
    calls,                      \* the calls the last handler made to its collaborators
    kept,                       \* a frame a client keeps, with the answer it got for it
    pending,                    \* the classify requests received and not yet run
    done,                       \* how many classify requests have completed
    connected_websockets,       \* the global list connected_websockets
    sockets,                    \* each WebSocket: "new", "open", "closing", "closed", "failed"
    tasks,                      \* the notify_websocket_clients runs added by add_task
    position                    \* where a classification that runs call by call stands

vars == <<pose_model, yolo_detection_model, yolo_classification_model, genai_client,
          stats, phase, input, hand_result, payload, result, response, verdicts, calls,
          kept, pending, done, connected_websockets, sockets, tasks, position>>

None == [none |-> TRUE]

(***************************************************************************)
(* Arithmetic of the source on integers.                                   *)
(***************************************************************************)
\* int(x) for a rational x = a / b, b > 0: truncation toward zero.
TruncDiv(a, b) == IF a >= 0 THEN a \div b ELSE -((-a) \div b)

\* int(v) of a coordinate v held in half pixels.
ToInt(v) == TruncDiv(v, 2)

Max(a, b) == IF a >= b THEN a ELSE b

Min(a, b) == IF a <= b THEN a ELSE b

(***************************************************************************)
(* HandWristDetector: keypoint indices and thresholds.                     *)
(***************************************************************************)
LEFT_WRIST == 9
RIGHT_WRIST == 10
LEFT_ELBOW == 7
RIGHT_ELBOW == 8
LEFT_SHOULDER == 5
RIGHT_SHOULDER == 6

\* WRIST_CONFIDENCE_THRESHOLD = 0.30
WRIST_CONFIDENCE_THRESHOLD == 30

\* elbow_conf < 0.2
ELBOW_CONFIDENCE_THRESHOLD == 20

\* hand_center = wrist + d * 0.35, as the fraction EXTEND_NUM / EXTEND_DEN
EXTEND_NUM == 35
EXTEND_DEN == 100

\* box_size = 250
box_size == 250

\* class_name.lower() of the detector's class names
LowerName(s) ==
    CASE s = "Person" -> "person"
      [] s = "PERSON" -> "person"
      [] s = "Bottle" -> "bottle"
      [] OTHER -> s

\* the dict returned on every path without a result: no "method" key
NotDetected(msg) ==
    [hand_detected |-> FALSE, wrist_detected |-> FALSE, hand_bbox |-> None,
     wrist_position |-> None, confidence |-> 0, keypoints_count |-> 0,
     message |-> msg]

\* a fallback that estimates a hand from the person box
FallbackEstimated ==
    [hand_detected |-> TRUE, wrist_detected |-> FALSE,
     hand_bbox |-> [x_min |-> 0, y_min |-> 0, x_max |-> box_size, y_max |-> box_size],
     wrist_position |-> None, confidence |-> 0, keypoints_count |-> 0,
     message |-> "Person detected, hand region estimated",
     method |-> "fallback_failed"]

\* the dict detect_person_fallback returns when it finds a person
FallbackFailed ==
    [hand_detected |-> FALSE, wrist_detected |-> FALSE, hand_bbox |-> None,
     wrist_position |-> None, confidence |-> 0, keypoints_count |-> 0,
     message |-> "Person detected but wrist keypoints not found. Please position hand clearly.",
     method |-> "fallback_failed"]

\* an exception that leaves the detector and reaches its caller
Raised == [raised |-> TRUE]

\* for r in results: for box in r.boxes: the first box of class person decides
HasPerson(det) ==
    /\ det.kind = "boxes"
    /\ \E i \in 1..Len(det.boxes) : LowerName(det.boxes[i].cls) = "person"

\* a fallback without its try/except: what predict raises goes up
detect_person_fallbackUncaught(det_model, det) ==
    IF ~det_model THEN [value |-> None, calls |-> <<>>]
    ELSE [value |-> IF det.kind = "raise" THEN Raised
                    ELSE IF HasPerson(det) THEN FallbackFailed
                    ELSE None,
          calls |-> <<[op |-> "predict", conf |-> 15]>>]

\* detect_person_fallback(image): None or the fallback_failed dict, and
\* the calls made.  det is what yolo_detection_model.predict answers for
\* the image; the fallback asks with conf=0.15.
detect_person_fallback(det_model, det) ==
    IF ~det_model THEN [value |-> None, calls |-> <<>>]
    ELSE [value |-> IF det.kind = "raise" THEN None
                    ELSE IF HasPerson(det) THEN FallbackFailed
                    ELSE None,
          calls |-> <<[op |-> "predict", conf |-> 15]>>]

\* a detector that, when the fallback gives nothing, hands out the last
\* detection again
FallbackOrLast(det_model, det, msg, made) ==
    LET fallback_result == detect_person_fallback(det_model, det)
    IN  [value |-> IF fallback_result.value # None
                   THEN fallback_result.value
                   ELSE IF hand_result # None /\ hand_result.hand_detected
                   THEN hand_result
                   ELSE NotDetected(msg),
         calls |-> made \o fallback_result.calls]

\* "if fallback_result: return fallback_result", then the dict with msg;
\* made are the calls made before the fallback
FallbackOr(det_model, det, msg, made) ==
    LET fallback_result == detect_person_fallback(det_model, det)
    IN  [value |-> IF fallback_result.value # None
                   THEN fallback_result.value
                   ELSE NotDetected(msg),
         calls |-> made \o fallback_result.calls]

\* a threshold that lets a wrist at exactly 0.30 through
WristAcceptedInclusive(left_conf, right_conf) ==
    left_conf >= WRIST_CONFIDENCE_THRESHOLD \/ right_conf >= WRIST_CONFIDENCE_THRESHOLD

\* left_wrist[2] > WRIST_CONFIDENCE_THRESHOLD or right_wrist[2] > WRIST_CONFIDENCE_THRESHOLD
WristAccepted(left_conf, right_conf) ==
    left_conf > WRIST_CONFIDENCE_THRESHOLD \/ right_conf > WRIST_CONFIDENCE_THRESHOLD

\* an arm choice that gives a tie to the left hand
UseLeftOnTie(left_conf, right_conf) == left_conf >= right_conf

\* if left_wrist[2] > right_wrist[2]: use left hand, else: use right hand
UseLeft(left_conf, right_conf) == left_conf > right_conf

\* hand_center_x = int(wrist_x + dx * 0.35); the same for y
HandCenter(wrist, d) == TruncDiv(EXTEND_DEN * wrist + EXTEND_NUM * d, EXTEND_DEN)

\* the hand_bbox of lines 347-373: wrist and elbow are already int(),
\* the shoulder is converted where it is used
HandRegion(wrist_x, wrist_y, elbow_x, elbow_y, elbow_conf, shoulder_x, shoulder_y, w, h) ==
    LET low == elbow_conf < ELBOW_CONFIDENCE_THRESHOLD
        dx == IF low THEN wrist_x - ToInt(shoulder_x) ELSE wrist_x - elbow_x
        dy == IF low THEN wrist_y - ToInt(shoulder_y) ELSE wrist_y - elbow_y
        hand_center_x == HandCenter(wrist_x, dx)
        hand_center_y == HandCenter(wrist_y, dy)
    IN  [x_min |-> Max(0, hand_center_x - box_size),
         y_min |-> Max(0, hand_center_y - box_size),
         x_max |-> Min(w, hand_center_x + box_size),
         y_max |-> Min(h, hand_center_y + box_size)]

\* the body of "if len(keypoints) > 0" for the first person's keypoints kpts,
\* a function on 0 .. len(kpts) - 1 of <<x, y, confidence>>;
\* "raise" stands for the IndexError of a keypoint index out of range,
\* "weak" for falling out of the loop to the fallback
PoseOnSkeleton(kpts, w, h) ==
    IF ~({LEFT_WRIST, RIGHT_WRIST, LEFT_ELBOW, RIGHT_ELBOW,
          LEFT_SHOULDER, RIGHT_SHOULDER} \subseteq DOMAIN kpts)
    THEN [kind |-> "raise"]
    ELSE
    LET left_wrist == kpts[LEFT_WRIST]
        right_wrist == kpts[RIGHT_WRIST]
    IN  IF ~WristAccepted(left_wrist[3], right_wrist[3]) THEN [kind |-> "weak"]
        ELSE
        LET left == UseLeft(left_wrist[3], right_wrist[3])
            wrist == IF left THEN left_wrist ELSE right_wrist
            elbow == IF left THEN kpts[LEFT_ELBOW] ELSE kpts[RIGHT_ELBOW]
            shoulder == IF left THEN kpts[LEFT_SHOULDER] ELSE kpts[RIGHT_SHOULDER]
            wrist_x == ToInt(wrist[1])
            wrist_y == ToInt(wrist[2])
        IN  [kind |-> "return",
             value |->
               [hand_detected |-> TRUE,
                wrist_detected |-> TRUE,
                hand_bbox |-> HandRegion(wrist_x, wrist_y, ToInt(elbow[1]), ToInt(elbow[2]),
                                         elbow[3], shoulder[1], shoulder[2], w, h),
                wrist_position |-> [x |-> wrist_x, y |-> wrist_y],
                confidence |-> wrist[3],
                keypoints_count |-> Cardinality(DOMAIN kpts),
                message |-> "Hand and wrist detected successfully",
                method |-> "pose"]]

\* the try block of detect_hand_wrist up to the fallback: what the pose
\* model's answer for the image (one Results object for one image) leads to
PoseStage(pose, w, h) ==
    IF pose.kind = "raise" THEN [kind |-> "raise"]
    ELSE IF pose.kind = "no_keypoints" THEN [kind |-> "weak"]
    ELSE IF Len(pose.people) = 0 THEN [kind |-> "weak"]
    ELSE PoseOnSkeleton(pose.people[1], w, h)

\* HandWristDetector.detect_hand_wrist(image): the dict returned and the
\* calls made to the models
detect_hand_wrist(pose_loaded, det_model, f) ==
    IF ~pose_loaded
    THEN FallbackOr(det_model, f.det, "Pose model not loaded and fallback failed", <<>>)
    ELSE
    LET stage == PoseStage(f.pose, f.w, f.h)
        pose_call == <<[op |-> "pose"]>>
    IN  CASE stage.kind = "return" -> [value |-> stage.value, calls |-> pose_call]
          [] stage.kind = "weak" ->
               FallbackOr(det_model, f.det, "No person or hands detected", pose_call)
          [] stage.kind = "raise" -> FallbackOr(det_model, f.det, "Error", pose_call)

(***************************************************************************)
(* The /detect-hand-wrist endpoint.                                        *)
(***************************************************************************)
\* x1, y1, x2, y2 = map(int, box.xyxy[0])
BoxInts(box) == [i \in 1..4 |-> ToInt(box.xyxy[i])]

\* center_x = (x1 + x2) // 2, center_y = (y1 + y2) // 2 (floor division)
BoxCenter(b) == [x |-> (b[1] + b[3]) \div 2, y |-> (b[2] + b[4]) \div 2]

\* a containment test that leaves the edges of hand_bbox out
InHandRegionExclusive(hand_bbox, c) ==
    /\ hand_bbox.x_min < c.x /\ c.x < hand_bbox.x_max
    /\ hand_bbox.y_min < c.y /\ c.y < hand_bbox.y_max

\* hand_bbox['x_min'] <= center_x <= hand_bbox['x_max'] and
\* hand_bbox['y_min'] <= center_y <= hand_bbox['y_max']
InHandRegion(hand_bbox, c) ==
    /\ hand_bbox.x_min <= c.x /\ c.x <= hand_bbox.x_max
    /\ hand_bbox.y_min <= c.y /\ c.y <= hand_bbox.y_max

\* the entry appended to detected_objects for a box
DetectedObject(box) ==
    [class |-> box.cls, confidence |-> box.conf, bbox |-> BoxInts(box)]

\* a crop of the box itself, without the margin
CropOfTight(b, w, h) ==
    LET crop_x1 == Max(0, b[1])
        crop_y1 == Max(0, b[2])
        crop_x2 == Min(w, b[3])
        crop_y2 == Min(h, b[4])
    IN  IF crop_x2 > crop_x1 /\ crop_y2 > crop_y1
        THEN [x1 |-> crop_x1, y1 |-> crop_y1, x2 |-> crop_x2, y2 |-> crop_y2]
        ELSE None

\* the crop of lines 826-837: the rectangle cut out of the image, encoded
\* only when cropped.size > 0
CropOf(b, w, h) ==
    LET crop_x1 == Max(0, b[1] - 20)
        crop_y1 == Max(0, b[2] - 20)
        crop_x2 == Min(w, b[3] + 20)
        crop_y2 == Min(h, b[4] + 20)
    IN  IF crop_x2 > crop_x1 /\ crop_y2 > crop_y1
        THEN [x1 |-> crop_x1, y1 |-> crop_y1, x2 |-> crop_x2, y2 |-> crop_y2]
        ELSE None

\* the locals of the scan before the loop
ScanStart ==
    [object_in_hand |-> FALSE, object_bbox |-> None, cropped_image |-> None,
     max_confidence |-> 0, detected_objects |-> <<>>]

\* a scan that goes through every box and keeps the in-hand box of
\* highest confidence
RECURSIVE ScanBoxesBest(_, _, _, _, _, _)
ScanBoxesBest(boxes, i, st, hand_bbox, w, h) ==
    IF i > Len(boxes) THEN st
    ELSE
    LET box == boxes[i]
        b == BoxInts(box)
        seen == [st EXCEPT !.detected_objects = Append(@, DetectedObject(box))]
    IN  IF LowerName(box.cls) = "person"
        THEN ScanBoxesBest(boxes, i + 1, seen, hand_bbox, w, h)
        ELSE IF InHandRegion(hand_bbox, BoxCenter(b)) /\ box.conf > st.max_confidence
        THEN ScanBoxesBest(boxes, i + 1,
               [seen EXCEPT
                  !.object_in_hand = TRUE,
                  !.object_bbox = [x_min |-> b[1], y_min |-> b[2], x_max |-> b[3],
                                   y_max |-> b[4], class |-> box.cls,
                                   confidence |-> box.conf],
                  !.max_confidence = box.conf,
                  !.cropped_image = CropOf(b, w, h)],
               hand_bbox, w, h)
        ELSE ScanBoxesBest(boxes, i + 1, seen, hand_bbox, w, h)

\* for box in r.boxes, from the i-th box on, with the locals st
RECURSIVE ScanBoxes(_, _, _, _, _, _)
ScanBoxes(boxes, i, st, hand_bbox, w, h) ==
    IF i > Len(boxes) THEN st
    ELSE
    LET box == boxes[i]
        b == BoxInts(box)
        seen == [st EXCEPT !.detected_objects = Append(@, DetectedObject(box))]
    IN  IF LowerName(box.cls) = "person"
        THEN ScanBoxes(boxes, i + 1, seen, hand_bbox, w, h)
        ELSE IF InHandRegion(hand_bbox, BoxCenter(b))
        THEN [seen EXCEPT
                !.object_in_hand = TRUE,
                !.object_bbox = [x_min |-> b[1], y_min |-> b[2], x_max |-> b[3],
                                 y_max |-> b[4], class |-> box.cls,
                                 confidence |-> box.conf],
                !.max_confidence = Max(st.max_confidence, box.conf),
                !.cropped_image = CropOf(b, w, h)]
        ELSE ScanBoxes(boxes, i + 1, seen, hand_bbox, w, h)

\* the two dicts the handler returns without a detection result
InvalidImagePayload ==
    [hand_detected |-> FALSE, wrist_detected |-> FALSE, object_in_hand |-> FALSE,
     message |-> "Invalid image"]

ErrorPayload ==
    [hand_detected |-> FALSE, wrist_detected |-> FALSE, object_in_hand |-> FALSE,
     message |-> "Error"]

\* a merge that copies the two flags of d and drops its other keys
MergeFlagsOnly(d, over) ==
    over @@ [hand_detected |-> d.hand_detected, wrist_detected |-> d.wrist_detected]

\* {**d, key: value, ...}: the keys written last win
Merge(d, over) == over @@ d

\* a handler that runs the detector whatever the hand result is
DetectCallsAlways(hr, det_model) ==
    IF det_model THEN <<[op |-> "predict", conf |-> 30]>> ELSE <<>>

\* the call the handler makes to the object detector, with conf=0.3
DetectCalls(hr, det_model) ==
    IF hr = Raised THEN <<>>
    ELSE IF hr.hand_detected /\ hr.wrist_detected /\ det_model
    THEN <<[op |-> "predict", conf |-> 30]>>
    ELSE <<>>

\* the body of detect_hand_wrist(request) once hand_result is known; an
\* exception out of the detector ends in the handler's except branch
DetectPayload(hr, det_model, f) ==
    IF hr = Raised THEN ErrorPayload
    ELSE IF ~hr.hand_detected \/ ~hr.wrist_detected
    THEN Merge(hr, [object_in_hand |-> FALSE, cropped_image |-> None,
                    object_bbox |-> None, detected_objects |-> <<>>])
    ELSE IF ~det_model
    THEN Merge(hr, [object_in_hand |-> FALSE, message |-> "Detection model not loaded"])
    ELSE IF f.det.kind = "raise" THEN ErrorPayload
    ELSE
    LET boxes == IF f.det.kind = "boxes" THEN f.det.boxes ELSE <<>>
        st == ScanBoxes(boxes, 1, ScanStart, hr.hand_bbox, f.w, f.h)
    IN  Merge(hr,
          [object_in_hand |-> st.object_in_hand,
           cropped_image |-> st.cropped_image,
           object_bbox |-> st.object_bbox,
           detected_objects |-> st.detected_objects,
           confidence |-> IF st.object_in_hand THEN st.max_confidence ELSE hr.confidence,
           message |-> IF st.object_in_hand THEN "Hand, wrist, and object detected"
                       ELSE "Hand/wrist detected, waiting for object"])

(***************************************************************************)
(* Text.  A Python str is the sequence of its characters.                  *)
(***************************************************************************)
UpperCase == <<"A", "B", "C", "D", "E", "F", "G", "H", "I", "J", "K", "L", "M", "N", "O", "P", "Q", "R", "S", "T", "U", "V", "W", "X", "Y", "Z">>

LowerCase == <<"a", "b", "c", "d", "e", "f", "g", "h", "i", "j", "k", "l", "m", "n", "o", "p", "q", "r", "s", "t", "u", "v", "w", "x", "y", "z">>

IsUpper(c) == \E i \in 1..Len(UpperCase) : UpperCase[i] = c

IsLower(c) == \E i \in 1..Len(LowerCase) : LowerCase[i] = c

\* c.lower() and c.upper() of one character
LowerChar(c) ==
    IF IsUpper(c) THEN LowerCase[CHOOSE i \in 1..Len(UpperCase) : UpperCase[i] = c] ELSE c

UpperChar(c) ==
    IF IsLower(c) THEN UpperCase[CHOOSE i \in 1..Len(LowerCase) : LowerCase[i] = c] ELSE c

\* str.lower()
Lower(s) == [i \in 1..Len(s) |-> LowerChar(s[i])]

\* str.title(): a letter after a non-letter is upper-cased, any other lower-cased
Title(s) ==
    [i \in 1..Len(s) |->
        IF i = 1 \/ ~(IsUpper(s[i - 1]) \/ IsLower(s[i - 1]))
        THEN UpperChar(s[i])
        ELSE LowerChar(s[i])]

\* needle in hay
Contains(hay, needle) ==
    \E i \in 0..(Len(hay) - Len(needle)) : SubSeq(hay, i + 1, i + Len(needle)) = needle

\* hay.find(c) for one character c, as a 1-based index; 0 for Python's -1
Find(hay, c) ==
    IF \E i \in 1..Len(hay) : hay[i] = c
    THEN CHOOSE i \in 1..Len(hay) : hay[i] = c /\ \A j \in 1..(i - 1) : hay[j] # c
    ELSE 0

IsSpace(c) == c \in {" ", "\n", "\t"}

\* str.strip()
RECURSIVE LStrip(_)
LStrip(s) == IF s # <<>> /\ IsSpace(Head(s)) THEN LStrip(Tail(s)) ELSE s

RECURSIVE RStrip(_)
RStrip(s) ==
    IF s # <<>> /\ IsSpace(s[Len(s)]) THEN RStrip(SubSeq(s, 1, Len(s) - 1)) ELSE s

Strip(s) == RStrip(LStrip(s))

(***************************************************************************)
(* RecyclableWasteClassifier: the verdicts.                                *)
(***************************************************************************)
\* WASTE_CATEGORIES[category]["color"] and ["disposal_code"]
CategoryColor(category) == IF category = "Recyclable" THEN "Green" ELSE "Black"

CategoryCode(category) == IF category = "Recyclable" THEN "REC" ELSE "NR"

\* the keyword lists of map_class_to_category
recyclable ==
    {<<"p", "l", "a", "s", "t", "i", "c">>,
     <<"b", "o", "t", "t", "l", "e">>,
     <<"c", "a", "n">>,
     <<"m", "e", "t", "a", "l">>,
     <<"a", "l", "u", "m", "i", "n", "u", "m">>,
     <<"g", "l", "a", "s", "s">>,
     <<"p", "a", "p", "e", "r">>,
     <<"c", "a", "r", "d", "b", "o", "a", "r", "d">>,
     <<"b", "o", "x">>,
     <<"c", "o", "n", "t", "a", "i", "n", "e", "r">>,
     <<"j", "a", "r">>,
     <<"t", "i", "n">>}

non_recyclable ==
    {<<"f", "o", "o", "d">>,
     <<"o", "r", "g", "a", "n", "i", "c">>,
     <<"w", "a", "s", "t", "e">>,
     <<"s", "t", "y", "r", "o", "f", "o", "a", "m">>,
     <<"c", "e", "r", "a", "m", "i", "c">>,
     <<"f", "a", "b", "r", "i", "c">>}

\* confidence > 0.7
UNMATCHED_CONFIDENCE_THRESHOLD == 70

\* a mapping that takes an unmatched class at the threshold for recyclable
map_class_to_categoryInclusive(class_name, confidence) ==
    LET class_lower == Lower(class_name)
    IN  IF \E k \in recyclable : Contains(class_lower, k)
        THEN [category |-> "Recyclable", reason |-> <<"This item can be recycled.">>]
        ELSE IF \E k \in non_recyclable : Contains(class_lower, k)
        THEN [category |-> "Non-Recyclable", reason |-> <<"This item cannot be recycled.">>]
        ELSE [category |-> IF confidence >= UNMATCHED_CONFIDENCE_THRESHOLD
                           THEN "Recyclable" ELSE "Non-Recyclable",
              reason |-> <<"Classification based on AI analysis.">>]

\* a mapping that consults the non-recyclable table first
map_class_to_categoryNonFirst(class_name, confidence) ==
    LET class_lower == Lower(class_name)
    IN  IF \E k \in non_recyclable : Contains(class_lower, k)
        THEN [category |-> "Non-Recyclable", reason |-> <<"This item cannot be recycled.">>]
        ELSE IF \E k \in recyclable : Contains(class_lower, k)
        THEN [category |-> "Recyclable", reason |-> <<"This item can be recycled.">>]
        ELSE [category |-> IF confidence > UNMATCHED_CONFIDENCE_THRESHOLD
                           THEN "Recyclable" ELSE "Non-Recyclable",
              reason |-> <<"Classification based on AI analysis.">>]

\* map_class_to_category(class_name, confidence)
map_class_to_category(class_name, confidence) ==
    LET class_lower == Lower(class_name)
    IN  IF \E k \in recyclable : Contains(class_lower, k)
        THEN [category |-> "Recyclable", reason |-> <<"This item can be recycled.">>]
        ELSE IF \E k \in non_recyclable : Contains(class_lower, k)
        THEN [category |-> "Non-Recyclable", reason |-> <<"This item cannot be recycled.">>]
        ELSE [category |-> IF confidence > UNMATCHED_CONFIDENCE_THRESHOLD
                           THEN "Recyclable" ELSE "Non-Recyclable",
              reason |-> <<"Classification based on AI analysis.">>]

\* a fallback that is less sure of itself
get_fallback_classificationUnsure ==
    [classification |-> "Non-Recyclable",
     item_name |-> <<"U", "n", "k", "n", "o", "w", "n", " ", "I", "t", "e", "m">>,
     explanation |-> <<"Could not classify - defaulting to non-recyclable for safety.">>,
     bin_color |-> "Black",
     disposal_code |-> "NR",
     confidence |-> 0,
     method |-> "fallback"]

\* get_fallback_classification()
get_fallback_classification ==
    [classification |-> "Non-Recyclable",
     item_name |-> <<"U", "n", "k", "n", "o", "w", "n", " ", "I", "t", "e", "m">>,
     explanation |-> <<"Could not classify - defaulting to non-recyclable for safety.">>,
     bin_color |-> "Black",
     disposal_code |-> "NR",
     confidence |-> 50,
     method |-> "fallback"]

S_recyclable == <<"r", "e", "c", "y", "c", "l", "a", "b", "l", "e">>

S_non_recyclable == <<"n", "o", "n", "-", "r", "e", "c", "y", "c", "l", "a", "b", "l", "e">>

\* a parse that forgets the "non-recyclable" exclusion
GeminiCategoryAnyRecyclable(text) ==
    IF Contains(Lower(text), S_recyclable) THEN "Recyclable" ELSE "Non-Recyclable"

\* classification of parse_gemini_response
GeminiCategory(text) ==
    LET text_lower == Lower(text)
    IN  IF Contains(text_lower, S_recyclable) /\ ~Contains(text_lower, S_non_recyclable)
        THEN "Recyclable"
        ELSE "Non-Recyclable"

\* item_name of parse_gemini_response: the text between the first colon
\* and the period that follows it, stripped
GeminiItemName(text) ==
    LET colon == Find(text, ":")
    IN  IF colon = 0 THEN <<"U", "n", "k", "n", "o", "w", "n", " ", "I", "t", "e", "m">>
        ELSE
        LET item_info == Strip(SubSeq(text, colon + 1, Len(text)))
            end == Find(item_info, ".")
        IN  IF end = 0 THEN <<"U", "n", "k", "n", "o", "w", "n", " ", "I", "t", "e", "m">>
            ELSE Strip(SubSeq(item_info, 1, end - 1))

\* parse_gemini_response(text)
parse_gemini_response(text) ==
    LET classification == GeminiCategory(text)
    IN  [classification |-> classification,
         item_name |-> GeminiItemName(text),
         explanation |-> text,
         bin_color |-> CategoryColor(classification),
         disposal_code |-> CategoryCode(classification),
         confidence |-> 85,
         method |-> "llm"]

\* model_names of classify_with_gemini, in the order they are tried
model_names == <<"gemini-2.0-flash-exp", "gemini-2.5-flash", "gemini-2.5-pro">>

\* self.genai_client.files.delete(name=uploaded_file.name) after
\* generate_content has returned; what delete raises is swallowed
DeleteAfterUse(uploaded_file) == <<[op |-> "delete", file |-> uploaded_file]>>

\* an except branch that leaves the uploaded file where it is
CleanUpNever(uploaded_file) == <<>>

\* the except branch of one attempt: "if 'uploaded_file' in locals()"
\* deletes the file of the last upload that succeeded, of this attempt or
\* of an earlier one
CleanUp(uploaded_file) ==
    IF uploaded_file = 0 THEN <<>> ELSE <<[op |-> "delete", file |-> uploaded_file]>>

\* a loop that asks every model and returns the last text it got
RECURSIVE GeminiLoopLast(_, _, _, _)
GeminiLoopLast(script, i, uploaded_file, made) ==
    IF i > Len(model_names)
    THEN [value |-> get_fallback_classification, calls |-> made]
    ELSE
    LET a == script[i]
        upload == <<[op |-> "upload", file |-> i]>>
        generate == <<[op |-> "generate", model |-> model_names[i], file |-> i]>>
    IN  IF a.upload = "raise"
        THEN GeminiLoopLast(script, i + 1, uploaded_file,
                            made \o upload \o CleanUp(uploaded_file))
        ELSE IF a.generate = "raise"
        THEN GeminiLoopLast(script, i + 1, i, made \o upload \o generate \o CleanUp(i))
        ELSE
        LET rest == GeminiLoopLast(script, i + 1, i,
                                   made \o upload \o generate \o DeleteAfterUse(i))
        IN  IF a.text # <<>> /\ rest.value.method = "fallback"
            THEN [value |-> parse_gemini_response(a.text), calls |-> rest.calls]
            ELSE rest

\* for model_name in model_names, from the i-th name on; script[i] is what
\* the cloud answers to the i-th attempt, uploaded_file the local of that
\* name (0 while unbound), made the calls made so far
RECURSIVE GeminiLoop(_, _, _, _)
GeminiLoop(script, i, uploaded_file, made) ==
    IF i > Len(model_names)
    THEN [value |-> get_fallback_classification, calls |-> made]
    ELSE
    LET a == script[i]
        upload == <<[op |-> "upload", file |-> i]>>
        generate == <<[op |-> "generate", model |-> model_names[i], file |-> i]>>
    IN  IF a.upload = "raise"
        THEN GeminiLoop(script, i + 1, uploaded_file,
                        made \o upload \o CleanUp(uploaded_file))
        ELSE IF a.generate = "raise"
        THEN GeminiLoop(script, i + 1, i, made \o upload \o generate \o CleanUp(i))
        ELSE IF a.generate = "text" /\ a.text # <<>>
        THEN [value |-> parse_gemini_response(a.text),
              calls |-> made \o upload \o generate \o DeleteAfterUse(i)]
        ELSE GeminiLoop(script, i + 1, i, made \o upload \o generate \o DeleteAfterUse(i))

\* classify_with_gemini(image): the verdict and the calls made to the cloud
classify_with_gemini(client, it) ==
    IF ~client THEN [value |-> get_fallback_classification, calls |-> <<>>]
    ELSE IF it.prep = "raise" THEN [value |-> get_fallback_classification, calls |-> <<>>]
    ELSE GeminiLoop(it.cloud, 1, 0, <<>>)

\* a local path that gives up instead of asking the cloud
LocalFallThroughGivesUp(client, it) ==
    [value |-> get_fallback_classification, calls |-> <<>>]

\* "return self.classify_with_gemini(image)" of classify_with_yolo_model
LocalFallThrough(client, it) == classify_with_gemini(client, it)

\* the dict classify_with_yolo_model builds from the top-1 class
YoloVerdict(class_name, confidence) ==
    LET classification == map_class_to_category(class_name, confidence)
    IN  [classification |-> classification.category,
         item_name |-> Title(class_name),
         explanation |-> <<"AI model: ", ToString(confidence), "% confidence. ">>
                         \o classification.reason,
         bin_color |-> CategoryColor(classification.category),
         disposal_code |-> CategoryCode(classification.category),
         confidence |-> confidence,
         method |-> "yolo_model"]

\* classify_with_yolo_model(image): the verdict and the calls made
classify_with_yolo_model(cls_model, client, it) ==
    IF ~cls_model THEN LocalFallThrough(client, it)
    ELSE
    LET rest == IF it.local.kind = "probs"
                THEN [value |-> YoloVerdict(it.local.class_name, it.local.confidence),
                      calls |-> <<>>]
                ELSE LocalFallThrough(client, it)
    IN  [value |-> rest.value, calls |-> <<[op |-> "classify"]>> \o rest.calls]

S_model == <<"m", "o", "d", "e", "l">>

\* (request.classification_method or "model").lower()
MethodOf(m) == Lower(IF m = <<>> THEN S_model ELSE m)

\* classifier.generate_qr_code(result): the payload of the code, or None
generate_qr_code(res, it) ==
    IF it.qr = "raise" THEN None
    ELSE [classification |-> res.classification, item |-> res.item_name]

\* a response that drops the verdict for the fallback when there is no QR code
ResponseOfOrFallback(res, qr_code) ==
    IF qr_code = None
    THEN [status |-> 200,
          classification |-> get_fallback_classification.classification,
          confidence |-> get_fallback_classification.confidence,
          item_name |-> get_fallback_classification.item_name,
          bin_color |-> get_fallback_classification.bin_color,
          qr_code |-> None,
          explanation |-> <<"Error. Using fallback.">>]
    ELSE [status |-> 200,
          classification |-> res.classification,
          confidence |-> res.confidence,
          item_name |-> res.item_name,
          bin_color |-> res.bin_color,
          qr_code |-> qr_code,
          explanation |-> res.explanation]

\* the ClassificationResponse built from a verdict
ResponseOf(res, qr_code) ==
    [status |-> 200,
     classification |-> res.classification,
     confidence |-> res.confidence,
     item_name |-> res.item_name,
     bin_color |-> res.bin_color,
     qr_code |-> qr_code,
     explanation |-> res.explanation]

\* an error answer that names no category
ExceptionResponseUnknown ==
    [status |-> 200,
     classification |-> "Unknown",
     confidence |-> 0,
     item_name |-> <<>>,
     bin_color |-> "Black",
     qr_code |-> None,
     explanation |-> <<"Error.">>]

\* the ClassificationResponse of "except Exception"
ExceptionResponse ==
    [status |-> 200,
     classification |-> get_fallback_classification.classification,
     confidence |-> get_fallback_classification.confidence,
     item_name |-> get_fallback_classification.item_name,
     bin_color |-> get_fallback_classification.bin_color,
     qr_code |-> None,
     explanation |-> <<"Error. Using fallback.">>]

\* an undecodable image answered with the fallback verdict
InvalidImageAsFallback ==
    [status |-> 200,
     classification |-> "Non-Recyclable",
     confidence |-> 50,
     item_name |-> <<"U", "n", "k", "n", "o", "w", "n", " ", "I", "t", "e", "m">>,
     bin_color |-> "Black",
     qr_code |-> None,
     explanation |-> <<"Error. Using fallback.">>]

\* raise HTTPException(status_code=400, detail="Invalid image")
InvalidImageResponse == [status |-> 400, detail |-> "Invalid image"]

\* a notification that carries the fallback verdict whatever was found
NotifyMessageFallback(res) ==
    [type |-> "classification_complete", data |-> get_fallback_classification]

\* {"type": "classification_complete", "data": result}
NotifyMessage(res) == [type |-> "classification_complete", data |-> res]

\* if connected_websockets: background_tasks.add_task(notify_websocket_clients,
\* {...}): the runs added to the response's background tasks, not yet started
add_task(connected, res) ==
    IF connected # <<>>
    THEN <<[message |-> NotifyMessage(res), pc |-> "queued", todo |-> <<>>]>>
    ELSE <<>>

\* counters written from the values they had at startup, as by a handler
\* that read them before the others wrote
StatsAfterStale(st, method, res) ==
    [st EXCEPT
       !.model_classifications = IF method = S_model THEN 1 ELSE @,
       !.llm_classifications = IF method = S_model THEN @ ELSE 1,
       !.total_classifications = 1,
       !.category_counts[res.classification] = 1]

\* counters that leave the category of the verdict out
StatsAfterNoCategory(st, method, res) ==
    [st EXCEPT
       !.model_classifications = IF method = S_model THEN @ + 1 ELSE @,
       !.llm_classifications = IF method = S_model THEN @ ELSE @ + 1,
       !.total_classifications = @ + 1]

\* the counters after a request that went down path ("model" or not) and
\* ended in the verdict res
StatsAfter(st, method, res) ==
    [st EXCEPT
       !.model_classifications = IF method = S_model THEN @ + 1 ELSE @,
       !.llm_classifications = IF method = S_model THEN @ ELSE @ + 1,
       !.total_classifications = @ + 1,
       !.category_counts[res.classification] = @ + 1]

(***************************************************************************)
(* The images the detection endpoint is given, with what the pose model    *)
(* and the object detector answer for each.                                *)
(***************************************************************************)
\* longest list of boxes the object detector returns
MaxBoxes == 2

\* a whole pixel in half pixels
HalfPx(p) == 2 * p

\* image.shape of the decoded frames: (w, h)
FrameSizes == {<<640, 480>>, <<1920, 1080>>}

\* wrist confidences around the 0.30 threshold
WristConfs == {29, 30, 31}

\* an arm: wrist <<x, y>>, elbow and shoulder <<x, y, confidence>>, all
\* inside the w x h frame (the pose model clips keypoints to the image)
Arms(w, h) ==
    {[wrist |-> <<HalfPx(w \div 2) + 1, HalfPx(h \div 2)>>,
      elbow |-> <<HalfPx(w \div 2 - 30), HalfPx(h \div 2 + 50) + 1, 20>>,
      shoulder |-> <<HalfPx(w \div 2 + 70) + 1, HalfPx(h \div 2 + 110), 90>>],
     [wrist |-> <<HalfPx(w \div 2) + 1, HalfPx(h \div 2)>>,
      elbow |-> <<HalfPx(w \div 2 - 30), HalfPx(h \div 2 + 50) + 1, 19>>,
      shoulder |-> <<HalfPx(w \div 2 + 70) + 1, HalfPx(h \div 2 + 110), 90>>],
     [wrist |-> <<HalfPx(w - 10), HalfPx(h - 10) + 1>>,
      elbow |-> <<HalfPx(15), HalfPx(15), 50>>,
      shoulder |-> <<HalfPx(40), HalfPx(40), 90>>],
     [wrist |-> <<HalfPx(10), HalfPx(10)>>,
      elbow |-> <<HalfPx(w - 15) + 1, HalfPx(h - 15), 50>>,
      shoulder |-> <<HalfPx(w - 40), HalfPx(h - 40), 90>>]}

\* the right arms tried against each left arm: the first and the third
RightArms(w, h) == {a \in Arms(w, h) : a.elbow[3] # 19 /\ a.wrist[1] > HalfPx(10)}

\* one person's keypoints in the pose model's (COCO) order: 5, 6 the
\* shoulders, 7, 8 the elbows, 9, 10 the wrists, left before right
Skeleton(n, lc, rc, la, ra) ==
    [i \in 0..(n - 1) |->
        CASE i = 5 -> la.shoulder
          [] i = 6 -> ra.shoulder
          [] i = 7 -> la.elbow
          [] i = 8 -> ra.elbow
          [] i = 9 -> <<la.wrist[1], la.wrist[2], lc>>
          [] i = 10 -> <<ra.wrist[1], ra.wrist[2], rc>>
          [] OTHER -> <<0, 0, 0>>]

\* what self.pose_model(image, ...) answers: an exception, a Results
\* without keypoints, or the keypoints of the people found
PoseAnswers(w, h) ==
    {[kind |-> "raise"], [kind |-> "no_keypoints"], [kind |-> "people", people |-> <<>>]}
    \cup {[kind |-> "people", people |-> <<Skeleton(17, lc, rc, la, ra)>>] :
             lc \in WristConfs, rc \in WristConfs, la \in Arms(w, h), ra \in RightArms(w, h)}
    \cup {[kind |-> "people", people |-> <<Skeleton(10, 31, 31, a, a)>>] : a \in Arms(w, h)}
    \cup {[kind |-> "people",
           people |-> <<Skeleton(17, 29, 30, a, a), Skeleton(17, 31, 31, a, a)>>] :
             a \in Arms(w, h)}

\* the boxes of the object detector in a frame of width w: class,
\* confidence, xyxy in half pixels, all inside the frame.  In the 640 x 480
\* frame the centers (580, 222) and (330, 472) lie on the right and bottom
\* edges of the first arm's hand region, (581, 222) one pixel outside it,
\* and (595, 379) on the top left corner of the third arm's.
BoxSet(w) ==
    IF w = 640
    THEN {[cls |-> "person", conf |-> 90,
           xyxy |-> <<HalfPx(100), HalfPx(50), HalfPx(500) + 1, HalfPx(470)>>],
          [cls |-> "bottle", conf |-> 60,
           xyxy |-> <<HalfPx(560), HalfPx(200), HalfPx(600), HalfPx(244) + 1>>],
          [cls |-> "cup", conf |-> 80,
           xyxy |-> <<HalfPx(561), HalfPx(200), HalfPx(601), HalfPx(244)>>],
          [cls |-> "Bottle", conf |-> 45,
           xyxy |-> <<HalfPx(310), HalfPx(464), HalfPx(350), HalfPx(480)>>],
          [cls |-> "cup", conf |-> 35,
           xyxy |-> <<HalfPx(575) + 1, HalfPx(359), HalfPx(615), HalfPx(399)>>]}
    ELSE {[cls |-> "Person", conf |-> 90,
           xyxy |-> <<HalfPx(700), HalfPx(100), HalfPx(1300), HalfPx(1000)>>],
          [cls |-> "bottle", conf |-> 60,
           xyxy |-> <<HalfPx(940), HalfPx(500), HalfPx(1000), HalfPx(560)>>]}

SeqsUpTo(S, n) == UNION {[1..k -> S] : k \in 0..n}

\* what yolo_detection_model.predict(image, ...) answers: an exception, a
\* Results whose boxes is None, or the boxes in the detector's order
DetAnswers(w) ==
    {[kind |-> "raise"], [kind |-> "no_boxes"]}
    \cup {[kind |-> "boxes", boxes |-> s] : s \in SeqsUpTo(BoxSet(w), MaxBoxes)}

\* request.image_base64: not base64 at all, base64 of no image, or a frame
Frames ==
    {[encoding |-> "bad_base64"], [encoding |-> "undecodable"]}
    \cup UNION {{[encoding |-> "ok", w |-> sz[1], h |-> sz[2], pose |-> p, det |-> d] :
                    p \in PoseAnswers(sz[1], sz[2]), d \in DetAnswers(sz[1])} : sz \in FrameSizes}

(***************************************************************************)
(* The images the classify endpoint is given, with what the local          *)
(* classifier, the cloud and the QR encoder answer for each.               *)
(***************************************************************************)
\* what yolo_classification_model(image) answers: an exception, results
\* without probs, or the top-1 class and its confidence
LocalAnswers ==
    {[kind |-> "raise"], [kind |-> "no_probs"]}
    \cup {[kind |-> "probs", class_name |-> c[1], confidence |-> c[2]] :
            c \in {<<<<"p", "l", "a", "s", "t", "i", "c", " ", "b", "o", "t", "t", "l", "e">>, 95>>,
                   <<<<"F", "o", "o", "d", " ", "W", "a", "s", "t", "e">>, 80>>,
                   <<<<"s", "h", "o", "e">>, 70>>,
                   <<<<"s", "h", "o", "e">>, 71>>}}

\* response.text of the cloud model
CloudTexts ==
    {<<"R", "e", "c", "y", "c", "l", "a", "b", "l", "e", ":", " ", "P", "l", "a", "s", "t", "i", "c", " ", "B", "o", "t", "t", "l", "e", ".", " ", "C", "l", "e", "a", "n", ".">>,
     <<"N", "o", "n", "-", "R", "e", "c", "y", "c", "l", "a", "b", "l", "e", ":", " ", "F", "o", "o", "d", " ", "W", "a", "s", "t", "e", ".">>,
     <<"u", "n", "c", "l", "e", "a", "r">>}

\* what one attempt meets: files.upload raises, generate_content raises,
\* or generate_content returns a text, which may be empty
Attempts ==
    {[upload |-> "raise"], [upload |-> "ok", generate |-> "raise"],
     [upload |-> "ok", generate |-> "text", text |-> <<>>]}
    \cup {[upload |-> "ok", generate |-> "text", text |-> t] : t \in CloudTexts}

Succeeds(a) == a.upload = "ok" /\ a.generate = "text" /\ a.text # <<>>

\* the answers to the attempts that are made: every attempt but the last
\* fails, and the last one fails only if it is the third
Scripts ==
    {s \in SeqsUpTo(Attempts, Len(model_names)) :
        /\ Len(s) >= 1
        /\ \A i \in 1..(Len(s) - 1) : ~Succeeds(s[i])
        /\ Len(s) < Len(model_names) => Succeeds(s[Len(s)])}

\* request.image_base64 of /classify.  prep is the conversion of the image
\* to JPEG bytes before the first attempt, qr the QR encoder.
Items ==
    {[encoding |-> "bad_base64"], [encoding |-> "undecodable"]}
    \cup {[encoding |-> "ok", local |-> l, prep |-> "ok", cloud |-> s, qr |-> "ok"] :
            l \in LocalAnswers, s \in Scripts}
    \cup {[encoding |-> "ok", local |-> l, prep |-> "ok", cloud |-> s, qr |-> "raise"] :
            l \in LocalAnswers, s \in {x \in Scripts : Len(x) = 1}}
    \cup {[encoding |-> "ok", local |-> l, prep |-> "raise", cloud |-> s, qr |-> "ok"] :
            l \in LocalAnswers, s \in {x \in Scripts : Len(x) = 1}}

(***************************************************************************)
(* State machine.                                                          *)
(***************************************************************************)
\* most websockets in one run
MaxSockets == 2

\* the WebSocket objects of the clients that connect to /ws
Sockets == 1..MaxSockets

\* request.classification_method as the client may send it
Methods == {<<"m", "o", "d", "e", "l">>, <<"M", "o", "d", "e", "l">>, <<>>,
            <<"l", "l", "m">>}

Categories == {"Recyclable", "Non-Recyclable"}

\* RecyclableWasteClassifier.__init__: self.stats
InitialStats ==
    [total_classifications |-> 0,
     category_counts |-> [c \in Categories |-> 0],
     model_classifications |-> 0,
     llm_classifications |-> 0]

NoVerdicts == [m \in Methods |-> None]

\* after the module is loaded: each model is loaded or not, the client is
\* set or not (load_pose_model, load_models, configure_gemini)
Init ==
    /\ pose_model \in BOOLEAN
    /\ yolo_detection_model \in BOOLEAN
    /\ yolo_classification_model \in BOOLEAN
    /\ genai_client \in BOOLEAN
    /\ stats = InitialStats
    /\ phase = "idle"
    /\ input = None
    /\ hand_result = None
    /\ payload = None
    /\ result = None
    /\ response = None
    /\ verdicts = NoVerdicts
    /\ calls = <<>>
    /\ kept = None
    /\ pending = <<>>
    /\ done = [completed |-> 0, classified |-> 0]
    /\ connected_websockets = <<>>
    /\ sockets = [s \in Sockets |-> "new"]
    /\ tasks = <<>>
    /\ position = None

\* the websocket side of the service: the list, the sockets, the notify runs
observers == <<connected_websockets, sockets, tasks>>

\* what the clients and the event loop hold, outside the handlers' reach
outside == <<kept, pending, done, observers, position>>

models == <<pose_model, yolo_detection_model, yolo_classification_model, genai_client>>

\* a client posts a frame to /detect-hand-wrist
PostFrame ==
    /\ phase = "idle"
    /\ \E f \in Frames : input' = f
    /\ phase' = "detect"
    /\ UNCHANGED <<models, stats, hand_result, payload, result, response, verdicts, calls, outside>>

\* detect_hand_wrist(request), the whole handler
DetectHandWrist ==
    /\ phase = "detect"
    /\ phase' = "answered"
    /\ IF input.encoding = "bad_base64"
       THEN hand_result' = None /\ payload' = ErrorPayload /\ calls' = <<>>
       ELSE IF input.encoding = "undecodable"
       THEN hand_result' = None /\ payload' = InvalidImagePayload /\ calls' = <<>>
       ELSE
       LET hr == detect_hand_wrist(pose_model, yolo_detection_model, input)
       IN  /\ hand_result' = hr.value
           /\ payload' = DetectPayload(hr.value, yolo_detection_model, input)
           /\ calls' = hr.calls \o DetectCalls(hr.value, yolo_detection_model)
    /\ UNCHANGED <<models, stats, input, result, response, verdicts, outside>>

\* the client has read the answer; the next request is independent of it
Finish ==
    /\ phase = "answered" \/ (phase = "classify" /\ verdicts # NoVerdicts)
    /\ phase' = "idle"
    /\ input' = None
    /\ hand_result' = None
    /\ payload' = None
    /\ result' = None
    /\ response' = None
    /\ verdicts' = NoVerdicts
    /\ calls' = <<>>
    /\ UNCHANGED <<models, stats, outside>>

\* the classifier's model and client play no part in detection
InitDetect == Init /\ ~yolo_classification_model /\ ~genai_client

NextDetect == PostFrame \/ DetectHandWrist \/ Finish

\* the detection endpoint alone
SpecDetect == InitDetect /\ [][NextDetect]_vars

\* a client takes an image; it posts it to /classify once with each method
PostImage ==
    /\ phase = "idle"
    /\ \E it \in Items : input' = it
    /\ phase' = "classify"
    /\ UNCHANGED <<models, stats, hand_result, payload, result, response, verdicts, calls, outside>>

\* classify_waste(request, background_tasks) on image it with
\* classification_method m, the counters being st: the verdict, the
\* response, the counters afterwards and the calls made
classify_waste(st, cls_model, client, connected, it, m) ==
    IF it.encoding = "bad_base64"
    THEN [result |-> None, response |-> ExceptionResponse, stats |-> st, calls |-> <<>>,
          added |-> <<>>]
    ELSE IF it.encoding = "undecodable"
    THEN [result |-> None, response |-> InvalidImageResponse, stats |-> st, calls |-> <<>>,
          added |-> <<>>]
    ELSE
    LET method == MethodOf(m)
        run == IF method = S_model
               THEN classify_with_yolo_model(cls_model, client, it)
               ELSE classify_with_gemini(client, it)
    IN  [result |-> run.value,
         response |-> ResponseOf(run.value, generate_qr_code(run.value, it)),
         stats |-> StatsAfter(st, method, run.value),
         calls |-> run.calls \o <<[op |-> "qr"]>>,
         added |-> add_task(connected, run.value)]

\* the handler run for the image in hand with method m
ClassifyWaste(m) ==
    /\ phase = "classify"
    /\ verdicts[m] = None
    /\ \E out \in {classify_waste(stats, yolo_classification_model, genai_client,
                                   connected_websockets, input, m)} :
           /\ result' = out.result
           /\ response' = out.response
           /\ stats' = out.stats
           /\ calls' = out.calls
           /\ tasks' = tasks \o out.added
           /\ verdicts' = [verdicts EXCEPT ![m] = [result |-> out.result,
                                                    response |-> out.response]]
    /\ UNCHANGED <<models, phase, input, hand_result, payload, kept, pending, done,
                   connected_websockets, sockets, position>>

\* the pose model and the detector play no part in classification
InitClassify == Init /\ ~pose_model /\ ~yolo_detection_model

NextClassify == PostImage \/ (\E m \in Methods : ClassifyWaste(m))

\* the classify endpoint, one image posted with each method in turn
SpecClassify == InitClassify /\ [][NextClassify]_vars

\* both endpoints of the service, with everything loaded or nothing
InitService ==
    /\ Init
    /\ pose_model = yolo_detection_model
    /\ yolo_detection_model = yolo_classification_model
    /\ yolo_classification_model = genai_client

NextService ==
    PostFrame \/ DetectHandWrist \/ PostImage \/ (\E m \in Methods : ClassifyWaste(m))

SpecService == InitService /\ [][NextService]_vars

(***************************************************************************)
(* The detection endpoint over several frames in a row: nothing is reset   *)
(* between two requests.  A client keeps one frame with its answer and     *)
(* sends it again later.                                                   *)
(***************************************************************************)
\* the frames sent in a row: the 1920 x 1080 ones and those that do not decode
RepeatFrames == {f \in Frames : f.encoding # "ok" \/ f.w = 1920}

\* the frame sent before and in between: a pose success with a bottle in hand
OtherFrame ==
    LET a == CHOOSE x \in Arms(1920, 1080) : x.elbow[3] = 20
        bottle == CHOOSE b \in BoxSet(1920) : b.cls = "bottle"
    IN  [encoding |-> "ok", w |-> 1920, h |-> 1080,
         pose |-> [kind |-> "people", people |-> <<Skeleton(17, 31, 29, a, a)>>],
         det |-> [kind |-> "boxes", boxes |-> <<bottle>>]]

\* the first frame of a run
PostFirstFrame ==
    /\ phase = "idle"
    /\ \E f \in RepeatFrames : input' = f
    /\ phase' = "detect"
    /\ UNCHANGED <<models, stats, hand_result, payload, result, response, verdicts, calls, outside>>

\* after OtherFrame, any frame; the handler's last answer stays as it is
PostNextFrame ==
    /\ phase = "answered"
    /\ kept = None
    /\ input = OtherFrame
    /\ \E f \in RepeatFrames : input' = f
    /\ phase' = "detect"
    /\ UNCHANGED <<models, stats, hand_result, payload, result, response, verdicts, calls, outside>>

\* the client keeps the frame and the answer it got
KeepFrame ==
    /\ phase = "answered"
    /\ kept = None
    /\ kept' = [frame |-> input, hand_result |-> hand_result, payload |-> payload,
                other |-> FALSE, again |-> FALSE]
    /\ UNCHANGED <<models, stats, phase, input, hand_result, payload, result, response,
                   verdicts, calls, pending, done, observers, position>>

\* the client sends OtherFrame, or the frame it kept once more
PostKeptOrOther ==
    /\ phase = "answered"
    /\ kept # None
    /\ \E f \in {kept.frame, OtherFrame} :
          /\ input' = f
          /\ kept' = [kept EXCEPT !.other = @ \/ f # kept.frame,
                                  !.again = @ \/ f = kept.frame]
    /\ phase' = "detect"
    /\ UNCHANGED <<models, stats, hand_result, payload, result, response, verdicts, calls,
                   pending, done, observers, position>>

InitRepeat == Init /\ ~yolo_classification_model /\ ~genai_client

NextRepeat ==
    PostFirstFrame \/ DetectHandWrist \/ PostNextFrame \/ KeepFrame \/ PostKeptOrOther

SpecRepeat == InitRepeat /\ [][NextRepeat]_vars

(***************************************************************************)
(* Classify requests in flight together.  The event loop holds the         *)
(* requests it has received and runs one handler at a time, each from its  *)
(* first line to its return, in any order.                                 *)
(***************************************************************************)
\* most requests in one run
MaxRequests == 3

\* the images sent together: two that fail before the classifier, one the
\* local model knows, one it raises on
ConcurrentItems ==
    {it \in Items :
        \/ it.encoding # "ok"
        \/ /\ it.qr = "ok" /\ it.prep = "ok"
           /\ Len(it.cloud) = 1
           /\ it.cloud[1].text = <<"u", "n", "c", "l", "e", "a", "r">>
           /\ \/ it.local.kind = "raise"
              \/ it.local.kind = "probs" /\ it.local.confidence = 95}

\* a request reaches the server while others wait
Receive ==
    /\ Len(pending) + done.completed < MaxRequests
    /\ \E it \in ConcurrentItems, m \in {S_model, <<"l", "l", "m">>} :
          pending' = Append(pending, [item |-> it, method |-> m])
    /\ UNCHANGED <<models, stats, phase, input, hand_result, payload, result, response,
                   verdicts, calls, kept, done, observers, position>>

\* the event loop runs the handler of the i-th waiting request
RunPending(i) ==
    /\ i \in 1..Len(pending)
    /\ \E out \in {classify_waste(stats, yolo_classification_model, genai_client,
                                  connected_websockets, pending[i].item, pending[i].method)} :
          /\ result' = out.result
          /\ response' = out.response
          /\ stats' = out.stats
          /\ calls' = out.calls
          /\ tasks' = tasks \o out.added
          /\ done' = [completed |-> done.completed + 1,
                      classified |-> done.classified + IF out.result # None THEN 1 ELSE 0]
    /\ pending' = SubSeq(pending, 1, i - 1) \o SubSeq(pending, i + 1, Len(pending))
    /\ UNCHANGED <<models, phase, input, hand_result, payload, verdicts, kept,
                   connected_websockets, sockets, position>>

InitConcurrent ==
    /\ Init
    /\ ~pose_model /\ ~yolo_detection_model
    /\ yolo_classification_model /\ genai_client

NextConcurrent == Receive \/ (\E i \in 1..MaxRequests : RunPending(i))

SpecConcurrent == InitConcurrent /\ [][NextConcurrent]_vars

(***************************************************************************)
(* The observers.  A client connects to /ws and later goes away, while     *)
(* the endpoint's handler waits in receive_text.  The background tasks of  *)
(* a response run once the response has been sent; a notify run suspends   *)
(* at each send, and connects, disconnects, other runs and other requests  *)
(* come in between.                                                        *)
(***************************************************************************)
\* the requests made while observers come and go, and so the notify runs
MaxObserved == MaxRequests - 1

\* the images classified while observers come and go: two that fail before
\* the classifier and one the local model knows
NotifyItems ==
    {it \in ConcurrentItems : it.encoding = "ok" => it.local.kind = "probs"}

\* list.remove(x): the list without its first x
RECURSIVE Remove(_, _)
Remove(list, x) ==
    IF list = <<>> THEN <<>>
    ELSE IF Head(list) = x THEN Tail(list)
    ELSE <<Head(list)>> \o Remove(Tail(list), x)

\* x in list
In(x, list) == \E i \in 1..Len(list) : list[i] = x

\* await ws.send_json(message): it returns while the client is there; once
\* the client has gone it raises, or the server drops the message
SendOutcomes(state) ==
    IF state = "open" THEN {"sent"} ELSE {"sent", "raise"}

\* websocket_endpoint up to its first receive_text
WebsocketConnect(ws) ==
    /\ sockets[ws] = "new"
    /\ sockets' = [sockets EXCEPT ![ws] = "open"]
    /\ connected_websockets' = Append(connected_websockets, ws)
    /\ UNCHANGED <<models, stats, phase, input, hand_result, payload, result, response,
                   verdicts, calls, kept, pending, done, tasks, position>>

\* the client of ws goes away; the handler still waits in receive_text
ClientLeaves(ws) ==
    /\ sockets[ws] = "open"
    /\ sockets' = [sockets EXCEPT ![ws] = "closing"]
    /\ UNCHANGED <<models, stats, phase, input, hand_result, payload, result, response,
                   verdicts, calls, kept, pending, done, connected_websockets, tasks, position>>

\* websocket_endpoint from "except WebSocketDisconnect": the handler ends
\* "closed", or "failed" when remove raises ValueError
WebsocketDisconnect(ws) ==
    /\ sockets[ws] = "closing"
    /\ IF In(ws, connected_websockets)
       THEN /\ connected_websockets' = Remove(connected_websockets, ws)
            /\ sockets' = [sockets EXCEPT ![ws] = "closed"]
       ELSE /\ connected_websockets' = connected_websockets
            /\ sockets' = [sockets EXCEPT ![ws] = "failed"]
    /\ UNCHANGED <<models, stats, phase, input, hand_result, payload, result, response,
                   verdicts, calls, kept, pending, done, tasks, position>>

\* a /classify request arrives and the event loop runs its handler; the
\* response is sent when the handler returns
ClassifyObserved ==
    /\ done.completed < MaxObserved
    /\ \E it \in NotifyItems :
          \E out \in {classify_waste(stats, yolo_classification_model, genai_client,
                                     connected_websockets, it, S_model)} :
             /\ input' = it
             /\ result' = out.result
             /\ response' = out.response
             /\ stats' = out.stats
             /\ calls' = out.calls
             /\ tasks' = tasks \o out.added
             /\ done' = [completed |-> done.completed + 1,
                         classified |-> done.classified + IF out.result # None THEN 1 ELSE 0]
    /\ UNCHANGED <<models, phase, hand_result, payload, verdicts, kept, pending,
                   connected_websockets, sockets, position>>

\* notify_websocket_clients(message) up to its first send
NotifyStart(k) ==
    /\ k \in 1..Len(tasks)
    /\ tasks[k].pc = "queued"
    /\ tasks' = [tasks EXCEPT ![k] =
                    IF connected_websockets = <<>>
                    THEN [@ EXCEPT !.pc = "returned"]
                    ELSE [@ EXCEPT !.pc = "running", !.todo = connected_websockets]]
    /\ UNCHANGED <<models, stats, phase, input, hand_result, payload, result, response,
                   verdicts, calls, kept, pending, done, connected_websockets, sockets, position>>

\* the run after the send to the head of todo: on to the next socket, or
\* returned after the last one
NotifyNext(t) ==
    [t EXCEPT !.todo = Tail(t.todo),
              !.pc = IF Tail(t.todo) = <<>> THEN "returned" ELSE "running"]

\* one turn of "for ws in connected_websockets.copy()": the send, and the
\* remove when it raises; a ValueError of remove ends the run
NotifySend(k) ==
    /\ k \in 1..Len(tasks)
    /\ tasks[k].pc = "running"
    /\ LET ws == Head(tasks[k].todo)
       IN  \E outcome \in SendOutcomes(sockets[ws]) :
              IF outcome = "sent"
              THEN /\ tasks' = [tasks EXCEPT ![k] = NotifyNext(@)]
                   /\ connected_websockets' = connected_websockets
              ELSE IF In(ws, connected_websockets)
              THEN /\ tasks' = [tasks EXCEPT ![k] = NotifyNext(@)]
                   /\ connected_websockets' = Remove(connected_websockets, ws)
              ELSE /\ tasks' = [tasks EXCEPT ![k] = [@ EXCEPT !.pc = "raised", !.todo = <<>>]]
                   /\ connected_websockets' = connected_websockets
    /\ UNCHANGED <<models, stats, phase, input, hand_result, payload, result, response,
                   verdicts, calls, kept, pending, done, sockets, position>>

InitNotify ==
    /\ Init
    /\ ~pose_model /\ ~yolo_detection_model
    /\ yolo_classification_model /\ genai_client

NextNotify ==
    \/ \E ws \in Sockets : WebsocketConnect(ws)
    \/ \E ws \in Sockets : ClientLeaves(ws)
    \/ \E ws \in Sockets : WebsocketDisconnect(ws)
    \/ ClassifyObserved
    \/ \E k \in 1..MaxObserved : NotifyStart(k)
    \/ \E k \in 1..MaxObserved : NotifySend(k)

\* the classify endpoint with its observers
SpecNotify == InitNotify /\ [][NextNotify]_vars

(***************************************************************************)
(* classify_with_gemini on its own: the cloud has an answer ready for      *)
(* each of the three attempts, whether or not the attempt is made.         *)
(***************************************************************************)
CloudScripts == [1..Len(model_names) -> Attempts]

\* an image reaches the cloud path
AskCloud ==
    /\ phase = "idle"
    /\ \E p \in {"ok", "raise"}, s \in CloudScripts : input' = [prep |-> p, cloud |-> s]
    /\ phase' = "cloud"
    /\ UNCHANGED <<models, stats, hand_result, payload, result, response, verdicts, calls, outside>>

\* result = classifier.classify_with_gemini(image)
ClassifyWithGemini ==
    /\ phase = "cloud"
    /\ \E run \in {classify_with_gemini(genai_client, input)} :
          /\ result' = run.value
          /\ calls' = run.calls
    /\ phase' = "answered"
    /\ UNCHANGED <<models, stats, input, hand_result, payload, response, verdicts, outside>>

InitCloud ==
    /\ Init
    /\ ~pose_model /\ ~yolo_detection_model /\ ~yolo_classification_model

NextCloud == AskCloud \/ ClassifyWithGemini

SpecCloud == InitCloud /\ [][NextCloud]_vars

(***************************************************************************)
(* map_class_to_category on its own, through classify_with_yolo_model,     *)
(* over class names put together from words.                               *)
(***************************************************************************)
\* most words in a class name
MaxWords == 2

\* the words of the class names, each with whether a keyword of the
\* recyclable table and one of the non-recyclable table occurs in it
ClassWords ==
    {[text |-> <<"p", "l", "a", "s", "t", "i", "c">>, rec |-> TRUE, non |-> FALSE],
     [text |-> <<"B", "o", "t", "t", "l", "e">>, rec |-> TRUE, non |-> FALSE],
     [text |-> <<"C", "A", "N">>, rec |-> TRUE, non |-> FALSE],
     [text |-> <<"m", "e", "t", "a", "l">>, rec |-> TRUE, non |-> FALSE],
     [text |-> <<"a", "l", "u", "m", "i", "n", "u", "m">>, rec |-> TRUE, non |-> FALSE],
     [text |-> <<"g", "l", "a", "s", "s">>, rec |-> TRUE, non |-> FALSE],
     [text |-> <<"p", "a", "p", "e", "r">>, rec |-> TRUE, non |-> FALSE],
     [text |-> <<"c", "a", "r", "d", "b", "o", "a", "r", "d">>, rec |-> TRUE, non |-> FALSE],
     [text |-> <<"b", "o", "x">>, rec |-> TRUE, non |-> FALSE],
     [text |-> <<"c", "o", "n", "t", "a", "i", "n", "e", "r">>, rec |-> TRUE, non |-> FALSE],
     [text |-> <<"j", "a", "r">>, rec |-> TRUE, non |-> FALSE],
     [text |-> <<"t", "i", "n">>, rec |-> TRUE, non |-> FALSE],
     [text |-> <<"c", "a", "n", "v", "a", "s">>, rec |-> TRUE, non |-> FALSE],
     [text |-> <<"f", "o", "o", "d">>, rec |-> FALSE, non |-> TRUE],
     [text |-> <<"O", "r", "g", "a", "n", "i", "c">>, rec |-> FALSE, non |-> TRUE],
     [text |-> <<"W", "A", "S", "T", "E">>, rec |-> FALSE, non |-> TRUE],
     [text |-> <<"s", "t", "y", "r", "o", "f", "o", "a", "m">>, rec |-> FALSE, non |-> TRUE],
     [text |-> <<"c", "e", "r", "a", "m", "i", "c">>, rec |-> FALSE, non |-> TRUE],
     [text |-> <<"f", "a", "b", "r", "i", "c">>, rec |-> FALSE, non |-> TRUE],
     [text |-> <<"w", "a", "s", "t", "e", "p", "a", "p", "e", "r">>, rec |-> TRUE, non |-> TRUE],
     [text |-> <<"s", "h", "o", "e">>, rec |-> FALSE, non |-> FALSE],
     [text |-> <<"T", "o", "y">>, rec |-> FALSE, non |-> FALSE],
     [text |-> <<"p", "a", "n">>, rec |-> FALSE, non |-> FALSE]}

\* the words joined by single spaces
RECURSIVE JoinWords(_)
JoinWords(ws) ==
    IF Len(ws) = 1 THEN ws[1].text
    ELSE ws[1].text \o <<" ">> \o JoinWords(Tail(ws))

\* results[0].probs.top1conf.item() around the threshold
ClassConfidences == {69, 70, 71}

\* yolo_classification_model(image) names a class with a confidence
LocalModelAnswers ==
    /\ phase = "idle"
    /\ \E ws \in SeqsUpTo(ClassWords, MaxWords) \ {<<>>}, c \in ClassConfidences :
          input' = [words |-> ws, class_name |-> JoinWords(ws), confidence |-> c]
    /\ phase' = "map"
    /\ UNCHANGED <<models, stats, hand_result, payload, result, response, verdicts, calls, outside>>

\* classify_with_yolo_model from "classification = self.map_class_to_category"
\* to its return
MapClassToCategory ==
    /\ phase = "map"
    /\ result' = YoloVerdict(input.class_name, input.confidence)
    /\ phase' = "answered"
    /\ UNCHANGED <<models, stats, input, hand_result, payload, response, verdicts, calls, outside>>

InitMap ==
    /\ Init
    /\ ~pose_model /\ ~yolo_detection_model /\ yolo_classification_model /\ ~genai_client

NextMap == LocalModelAnswers \/ MapClassToCategory

SpecMap == InitMap /\ [][NextMap]_vars

(***************************************************************************)
(* The object-in-hand step on its own: the handler from hand_bbox on, for  *)
(* a hand region inside the frame and one box of the detector, which may   *)
(* be degenerate, hug an edge or reach outside the frame.                  *)
(***************************************************************************)
\* box coordinates along an axis of length n, in half pixels
BoxCoords(n) ==
    {HalfPx(0 - 25) - 1, HalfPx(0), HalfPx(5) + 1, HalfPx(n - 5), HalfPx(n), HalfPx(n + 25) + 1}

\* the spans lo <= hi of a box along an axis of length n
BoxSpans(n) == {s \in BoxCoords(n) \X BoxCoords(n) : s[1] <= s[2]}

\* hand regions inside the w x h frame: the frame, its corners, a point
HandBoxes(w, h) ==
    {[x_min |-> 0, y_min |-> 0, x_max |-> w, y_max |-> h],
     [x_min |-> 0, y_min |-> 0, x_max |-> box_size, y_max |-> box_size],
     [x_min |-> w - box_size, y_min |-> h - box_size, x_max |-> w, y_max |-> h],
     [x_min |-> 0, y_min |-> 0, x_max |-> 0, y_max |-> 0]}

\* a pose success with the hand region hb
PoseSuccess(hb) ==
    [hand_detected |-> TRUE,
     wrist_detected |-> TRUE,
     hand_bbox |-> hb,
     wrist_position |-> [x |-> hb.x_min, y |-> hb.y_min],
     confidence |-> 31,
     keypoints_count |-> 17,
     message |-> "Hand and wrist detected successfully",
     method |-> "pose"]

\* the detector has found a hand in a frame and predict returns one box
HandFound ==
    /\ phase = "idle"
    /\ \E sz \in FrameSizes :
          \E hb \in HandBoxes(sz[1], sz[2]), xs \in BoxSpans(sz[1]), ys \in BoxSpans(sz[2]) :
             /\ input' = [encoding |-> "ok", w |-> sz[1], h |-> sz[2],
                          det |-> [kind |-> "boxes",
                                   boxes |-> <<[cls |-> "bottle", conf |-> 60,
                                                xyxy |-> <<xs[1], ys[1], xs[2], ys[2]>>]>>]]
             /\ hand_result' = PoseSuccess(hb)
    /\ phase' = "scan"
    /\ UNCHANGED <<models, stats, payload, result, response, verdicts, calls, outside>>

\* detect_hand_wrist(request) from "hand_bbox = hand_result[...]" to its return
ScanForObject ==
    /\ phase = "scan"
    /\ payload' = DetectPayload(hand_result, yolo_detection_model, input)
    /\ calls' = DetectCalls(hand_result, yolo_detection_model)
    /\ phase' = "answered"
    /\ UNCHANGED <<models, stats, input, hand_result, result, response, verdicts, outside>>

InitScan ==
    /\ Init
    /\ pose_model /\ yolo_detection_model /\ ~yolo_classification_model /\ ~genai_client

NextScan == HandFound \/ ScanForObject

SpecScan == InitScan /\ [][NextScan]_vars

(***************************************************************************)
(* One classification call by call.  The classifier waits at each call to  *)
(* a collaborator (the local model, files.upload, generate_content,        *)
(* files.delete); a step is the call returning or raising and the code     *)
(* that follows it, up to the next call or to the handler's return.        *)
(***************************************************************************)
\* the decoded images classified call by call: what the local model
\* answers, and what the cloud answers to each of the three attempts
StepItems ==
    {[encoding |-> "ok", local |-> l, prep |-> p, cloud |-> s, qr |-> "ok"] :
        l \in {a \in LocalAnswers : a.kind = "probs" => a.confidence = 95},
        p \in {"ok", "raise"},
        s \in CloudScripts}

\* the dict classify_with_yolo_model builds, for each answer with probs
VerdictOfLocal ==
    [a \in {x \in LocalAnswers : x.kind = "probs"} |->
        YoloVerdict(a.class_name, a.confidence)]

\* parse_gemini_response(response.text), for each text of the cloud
VerdictOfText == [t \in CloudTexts |-> parse_gemini_response(t)]

\* the classification stands at the call named at, with method method, in
\* attempt i of the cloud loop, uploaded_file bound to the file of that
\* attempt (0 while unbound)
At(at, method, i, uploaded_file) ==
    [at |-> at, method |-> method, i |-> i, uploaded_file |-> uploaded_file]

\* a loop that waits after a failed attempt instead of moving on
NextAttemptWaits(i) == [at |-> "wait", i |-> i]

\* "for model_name in model_names": after attempt i has ended without a
\* return, the next name, or the fallback after the last one
NextAttempt(i) ==
    IF i < Len(model_names) THEN [at |-> "upload", i |-> i + 1]
    ELSE [at |-> "fallback", i |-> i]

\* the handler from the verdict res to its return
ReturnVerdict(res) ==
    /\ result' = res
    /\ response' = ResponseOf(res, generate_qr_code(res, input))
    /\ stats' = StatsAfter(stats, position.method, res)
    /\ position' = [position EXCEPT !.at = "done"]

\* the classification goes on to the call to
GoOn(to, i, uploaded_file) ==
    /\ position' = At(to, position.method, i, uploaded_file)
    /\ UNCHANGED <<result, response, stats>>

\* classify_waste up to the call of the classifier
BeginClassify ==
    /\ phase = "idle"
    /\ \E it \in StepItems, m \in {S_model, <<"l", "l", "m">>} :
          /\ input' = it
          /\ position' = At(IF MethodOf(m) = S_model THEN "local" ELSE "cloud",
                            MethodOf(m), 0, 0)
    /\ phase' = "steps"
    /\ UNCHANGED <<models, stats, hand_result, payload, result, response, verdicts, calls,
                   kept, pending, done, observers>>

\* classify_with_yolo_model: the local model returns or raises
LocalReturns ==
    /\ phase = "steps" /\ position.at = "local"
    /\ IF ~yolo_classification_model
       THEN calls' = calls /\ GoOn("cloud", 0, 0)
       ELSE /\ calls' = Append(calls, [op |-> "classify"])
            /\ IF input.local.kind = "probs"
               THEN ReturnVerdict(VerdictOfLocal[input.local])
               ELSE GoOn("cloud", 0, 0)
    /\ UNCHANGED <<models, phase, input, hand_result, payload, verdicts,
                   kept, pending, done, observers>>

\* classify_with_gemini up to the loop
CloudBegins ==
    /\ phase = "steps" /\ position.at = "cloud"
    /\ IF ~genai_client \/ input.prep = "raise"
       THEN ReturnVerdict(get_fallback_classification)
       ELSE GoOn("upload", 1, 0)
    /\ UNCHANGED <<models, phase, input, hand_result, payload, verdicts, calls,
                   kept, pending, done, observers>>

\* files.upload returns or raises
UploadReturns ==
    /\ phase = "steps" /\ position.at = "upload"
    /\ calls' = Append(calls, [op |-> "upload", file |-> position.i])
    /\ IF input.cloud[position.i].upload = "raise"
       THEN GoOn("cleanup", position.i, position.uploaded_file)
       ELSE GoOn("generate", position.i, position.i)
    /\ UNCHANGED <<models, phase, input, hand_result, payload, verdicts,
                   kept, pending, done, observers>>

\* generate_content returns or raises
GenerateReturns ==
    /\ phase = "steps" /\ position.at = "generate"
    /\ calls' = Append(calls, [op |-> "generate", model |-> model_names[position.i],
                               file |-> position.i])
    /\ IF input.cloud[position.i].generate = "raise"
       THEN GoOn("cleanup", position.i, position.uploaded_file)
       ELSE GoOn("delete", position.i, position.uploaded_file)
    /\ UNCHANGED <<models, phase, input, hand_result, payload, verdicts,
                   kept, pending, done, observers>>

\* files.delete after generate_content returns or raises; then the text
\* is looked at
DeleteReturns ==
    /\ phase = "steps" /\ position.at = "delete"
    /\ calls' = calls \o DeleteAfterUse(position.uploaded_file)
    /\ IF input.cloud[position.i].text # <<>>
       THEN ReturnVerdict(VerdictOfText[input.cloud[position.i].text])
       ELSE \E to \in {NextAttempt(position.i)} : GoOn(to.at, to.i, position.uploaded_file)
    /\ UNCHANGED <<models, phase, input, hand_result, payload, verdicts,
                   kept, pending, done, observers>>

\* the except branch of an attempt: files.delete, if a file is bound,
\* returns or raises; then "continue"
CleanUpReturns ==
    /\ phase = "steps" /\ position.at = "cleanup"
    /\ calls' = calls \o CleanUp(position.uploaded_file)
    /\ \E to \in {NextAttempt(position.i)} : GoOn(to.at, to.i, position.uploaded_file)
    /\ UNCHANGED <<models, phase, input, hand_result, payload, verdicts,
                   kept, pending, done, observers>>

\* after the loop: return self.get_fallback_classification()
AllModelsFailed ==
    /\ phase = "steps" /\ position.at = "fallback"
    /\ ReturnVerdict(get_fallback_classification)
    /\ UNCHANGED <<models, phase, input, hand_result, payload, verdicts, calls,
                   kept, pending, done, observers>>

InitSteps == Init /\ ~pose_model /\ ~yolo_detection_model

\* the step of the classification under way; it stands at one place, so
\* at most one of these is enabled
Proceed ==
    \/ LocalReturns
    \/ CloudBegins
    \/ UploadReturns
    \/ GenerateReturns
    \/ DeleteReturns
    \/ CleanUpReturns
    \/ AllModelsFailed

NextSteps == BeginClassify \/ Proceed

\* every call returns or raises, and the code between two calls runs on
SpecSteps == InitSteps /\ [][NextSteps]_vars /\ WF_vars(Proceed)

(***************************************************************************)
(* detect_hand_wrist stage by stage: the pose stage, then the person       *)
(* fallback where the code goes on to it.  position holds the stage the    *)
(* invocation stands at, why it went to the fallback, and how often the    *)
(* fallback has been invoked.                                              *)
(***************************************************************************)
\* the frames that reach the detector
StageFrames == {f \in Frames : f.encoding = "ok"}

\* a detector that goes on to the fallback whatever the pose stage gave
AfterPoseAlways(kind) == "fallback"

\* after the pose stage: the return of the pose result, or on to a call of
\* detect_person_fallback (after the loop, or in the except branch)
AfterPose(kind) == IF kind = "return" THEN "returned" ELSE "fallback"

\* the message of the dict returned when the fallback gives nothing
FallbackMessage(why) ==
    IF why = "unavailable" THEN "Pose model not loaded and fallback failed"
    ELSE IF why = "weak" THEN "No person or hands detected"
    ELSE "Error"

\* the handler has decoded the frame and calls the detector
BeginDetect ==
    /\ phase = "idle"
    /\ \E f \in StageFrames : input' = f
    /\ phase' = "stages"
    /\ position' = [at |-> "entry", why |-> "", fallbacks |-> 0]
    /\ UNCHANGED <<models, stats, hand_result, payload, result, response, verdicts, calls,
                   kept, pending, done, observers>>

\* "if self.pose_model is None": on to the fallback
PoseUnavailable ==
    /\ phase = "stages" /\ position.at = "entry"
    /\ ~pose_model
    /\ position' = [position EXCEPT !.at = "fallback", !.why = "unavailable"]
    /\ UNCHANGED <<models, stats, phase, input, hand_result, payload, result, response,
                   verdicts, calls, kept, pending, done, observers>>

\* the try block up to the fallback: the pose model is asked, and the
\* result is returned, or the loop is left, or an exception is caught
PoseReturns ==
    /\ phase = "stages" /\ position.at = "entry"
    /\ pose_model
    /\ \E stage \in {PoseStage(input.pose, input.w, input.h)} :
          /\ calls' = <<[op |-> "pose"]>>
          /\ position' = [position EXCEPT !.at = AfterPose(stage.kind), !.why = stage.kind]
          /\ hand_result' = IF stage.kind = "return" THEN stage.value ELSE hand_result
          /\ phase' = IF AfterPose(stage.kind) = "returned" THEN "answered" ELSE phase
    /\ UNCHANGED <<models, stats, input, payload, result, response, verdicts,
                   kept, pending, done, observers>>

\* detect_person_fallback(image) and the return that follows it
FallbackReturns ==
    /\ phase = "stages" /\ position.at = "fallback"
    /\ \E out \in {detect_person_fallback(yolo_detection_model, input.det)} :
          /\ calls' = calls \o out.calls
          /\ hand_result' = IF out.value # None THEN out.value
                            ELSE NotDetected(FallbackMessage(position.why))
    /\ position' = [position EXCEPT !.at = "returned", !.fallbacks = @ + 1]
    /\ phase' = "answered"
    /\ UNCHANGED <<models, stats, input, payload, result, response, verdicts,
                   kept, pending, done, observers>>

InitStages == Init /\ ~yolo_classification_model /\ ~genai_client

NextStages == BeginDetect \/ PoseUnavailable \/ PoseReturns \/ FallbackReturns \/ Finish

\* one invocation of the detector after the other, stage by stage
SpecStages == InitStages /\ [][NextStages]_vars

(***************************************************************************)
(* parse_gemini_response on its own, over texts put together from the      *)
(* pieces the claims about it turn on.                                     *)
(***************************************************************************)
\* longest text, in pieces
MaxTokens == 3

Tokens ==
    {<<"R", "e", "c", "y", "c", "l", "a", "b", "l", "e">>,
     <<"r", "e", "c", "y", "c", "l", "a", "b", "l", "e">>,
     <<"N", "O", "N", "-">>,
     <<"n", "o", "n", "-">>,
     <<"r", "e", "c", "y", "c", "l">>,
     <<"a", "b", "l", "e">>,
     <<":", " ">>,
     <<"B", "o", "t", "t", "l", "e", ".">>,
     <<" ">>}

RECURSIVE Flatten(_)
Flatten(ss) == IF ss = <<>> THEN <<>> ELSE Head(ss) \o Flatten(Tail(ss))

\* every non-empty response.text of at most MaxTokens pieces
Texts == {Flatten(ss) : ss \in SeqsUpTo(Tokens, MaxTokens) \ {<<>>}}

InitParse ==
    /\ Init
    /\ ~pose_model /\ ~yolo_detection_model /\ ~yolo_classification_model /\ genai_client

\* the cloud answers an attempt with a text
CloudAnswers ==
    /\ phase = "idle"
    /\ \E t \in Texts : input' = [text |-> t]
    /\ phase' = "parse"
    /\ UNCHANGED <<models, stats, hand_result, payload, result, response, verdicts, calls, outside>>

\* return self.parse_gemini_response(response.text)
ParseGeminiResponse ==
    /\ phase = "parse"
    /\ result' = parse_gemini_response(input.text)
    /\ phase' = "answered"
    /\ UNCHANGED <<models, stats, input, hand_result, payload, response, verdicts, calls, outside>>

NextParse == CloudAnswers \/ ParseGeminiResponse

SpecParse == InitParse /\ [][NextParse]_vars

(***************************************************************************)
(* Properties of the detector and of the detection endpoint.               *)
(***************************************************************************)
HasValue(d, k) == k \in DOMAIN d /\ d[k] # None

HandImpliesWrist(d) ==
    /\ d.hand_detected => d.wrist_detected
    /\ d.wrist_detected => HasValue(d, "hand_bbox") /\ HasValue(d, "wrist_position")

\* the frame was decoded and the handler has answered
Detected == phase = "answered" /\ input # None /\ input.encoding = "ok" /\ hand_result # None

\* the first person's keypoints, when the pose model ran and found a whole skeleton
HasSkeleton ==
    /\ Detected /\ pose_model
    /\ input.pose.kind = "people" /\ Len(input.pose.people) > 0
    /\ DOMAIN input.pose.people[1] = 0..16

FirstSkeleton == input.pose.people[1]

\* pose gave no accepted wrist: no model, an exception, no skeleton, a
\* skeleton that is too short, or both wrists at 0.30 or below
OnFallbackPath ==
    /\ Detected
    /\ \/ ~pose_model
       \/ input.pose.kind \in {"raise", "no_keypoints"}
       \/ input.pose.kind = "people" /\ Len(input.pose.people) = 0
       \/ input.pose.kind = "people" /\ Len(input.pose.people) > 0
            /\ 10 \notin DOMAIN input.pose.people[1]
       \/ HasSkeleton /\ FirstSkeleton[9][3] <= 30 /\ FirstSkeleton[10][3] <= 30

IsPose(d) == "method" \in DOMAIN d /\ d.method = "pose"

\* C1: in every result of the detector and in every payload of the
\* detection endpoint, hand_detected implies wrist_detected, and
\* wrist_detected implies that hand_bbox and wrist_position are present
\* and not null.
C1_HandImpliesWrist ==
    /\ hand_result # None => HandImpliesWrist(hand_result)
    /\ payload # None => HandImpliesWrist(payload)

\* a merged payload of a pose success, with the object found in the hand
C1_Witness ==
    /\ Detected /\ IsPose(hand_result)
    /\ payload.hand_detected /\ payload.wrist_detected /\ payload.object_in_hand

C3_WristThreshold ==
    HasSkeleton =>
      LET accepted == FirstSkeleton[9][3] > 30 \/ FirstSkeleton[10][3] > 30
      IN  /\ (hand_result.hand_detected /\ IsPose(hand_result)) <=> accepted
          /\ ~accepted =>
                hand_result = IF yolo_detection_model /\ HasPerson(input.det)
                              THEN FallbackFailed
                              ELSE NotDetected("No person or hands detected")

\* a wrist at exactly 0.30, the other below: rejected
C3_Witness ==
    /\ HasSkeleton
    /\ FirstSkeleton[9][3] = 30 /\ FirstSkeleton[10][3] = 29
    /\ ~hand_result.hand_detected

\* C4: the hand_bbox of every pose result lies in the frame and is not
\* inverted: 0 <= x_min <= x_max <= w and 0 <= y_min <= y_max <= h.
C4_HandBBoxClamped ==
    Detected /\ hand_result.hand_detected =>
      LET b == hand_result.hand_bbox
      IN  /\ 0 <= b.x_min /\ b.x_min <= b.x_max /\ b.x_max <= input.w
          /\ 0 <= b.y_min /\ b.y_min <= b.y_max /\ b.y_max <= input.h

\* what a pose result must carry when it is built from the arm on one side
FromArm(d, wrist, elbow, shoulder) ==
    /\ d.wrist_position = [x |-> ToInt(wrist[1]), y |-> ToInt(wrist[2])]
    /\ d.confidence = wrist[3]
    /\ d.hand_bbox = HandRegion(ToInt(wrist[1]), ToInt(wrist[2]), ToInt(elbow[1]),
                                ToInt(elbow[2]), elbow[3], shoulder[1], shoulder[2],
                                input.w, input.h)

FromLeftArm(d) == FromArm(d, FirstSkeleton[9], FirstSkeleton[7], FirstSkeleton[5])

FromRightArm(d) == FromArm(d, FirstSkeleton[10], FirstSkeleton[8], FirstSkeleton[6])

\* C5 as amended: a pose result is built from the left arm when the left
\* wrist confidence is strictly higher, and from the right arm otherwise,
\* equal confidences included.
C5_DominantArm ==
    HasSkeleton /\ IsPose(hand_result) =>
      IF FirstSkeleton[9][3] > FirstSkeleton[10][3]
      THEN FromLeftArm(hand_result)
      ELSE FromRightArm(hand_result)

\* equal confidences, different arms: the right arm is used
C5_Witness ==
    /\ HasSkeleton /\ IsPose(hand_result)
    /\ FirstSkeleton[9][3] = 31 /\ FirstSkeleton[10][3] = 31
    /\ FromRightArm(hand_result) /\ ~FromLeftArm(hand_result)

\* C5 as claimed: the side with the strictly higher wrist confidence is
\* used, and equal confidences resolve to the left arm.
C5_TieResolvesLeft ==
    HasSkeleton /\ IsPose(hand_result) =>
      IF FirstSkeleton[9][3] >= FirstSkeleton[10][3]
      THEN FromLeftArm(hand_result)
      ELSE FromRightArm(hand_result)

\* the handler went through the scan of the detector's boxes
Scanned ==
    /\ Detected /\ hand_result.hand_detected /\ hand_result.wrist_detected
    /\ yolo_detection_model /\ input.det.kind = "boxes"

\* the center of the i-th box, in whole pixels
CenterX(i) == (ToInt(input.det.boxes[i].xyxy[1]) + ToInt(input.det.boxes[i].xyxy[3])) \div 2

CenterY(i) == (ToInt(input.det.boxes[i].xyxy[2]) + ToInt(input.det.boxes[i].xyxy[4])) \div 2

CenterInside(i, b) ==
    /\ b.x_min <= CenterX(i) /\ CenterX(i) <= b.x_max
    /\ b.y_min <= CenterY(i) /\ CenterY(i) <= b.y_max

\* C10: a box that is not a person counts as in hand exactly when its
\* center lies within hand_bbox, edges included: object_in_hand is true
\* exactly when the detector returned such a box.
C10_InclusiveContainment ==
    Scanned =>
      (payload.object_in_hand <=>
         \E i \in 1..Len(input.det.boxes) :
            /\ input.det.boxes[i].cls \notin {"person", "Person", "PERSON"}
            /\ CenterInside(i, hand_result.hand_bbox))

\* the only box has its center on the right edge of hand_bbox: in hand
C10_Witness ==
    /\ Scanned /\ Len(input.det.boxes) = 1
    /\ input.det.boxes[1].cls # "person"
    /\ CenterX(1) = hand_result.hand_bbox.x_max
    /\ payload.object_in_hand

\* the i-th box is not a person and has its center in hand_bbox b
Candidate(i, b) ==
    /\ input.det.boxes[i].cls \notin {"person", "Person", "PERSON"}
    /\ CenterInside(i, b)

\* the object_bbox the handler reports for the i-th box
ReportedBox(i) ==
    [x_min |-> ToInt(input.det.boxes[i].xyxy[1]),
     y_min |-> ToInt(input.det.boxes[i].xyxy[2]),
     x_max |-> ToInt(input.det.boxes[i].xyxy[3]),
     y_max |-> ToInt(input.det.boxes[i].xyxy[4]),
     class |-> input.det.boxes[i].cls,
     confidence |-> input.det.boxes[i].conf]

\* C11: object_bbox is the first box in the detector's order that is not
\* a person and has its center within hand_bbox; a person box is never
\* taken, a later in-hand box of higher confidence does not replace the
\* first, and object_in_hand is false exactly when there is no such box.
C11_FirstMatchWins ==
    Scanned =>
      LET n == Len(input.det.boxes)
          found == {i \in 1..n : Candidate(i, hand_result.hand_bbox)}
      IN  /\ payload.object_in_hand <=> found # {}
          /\ found = {} => payload.object_bbox = None
          /\ \A i \in found :
                (\A j \in found : i <= j) => payload.object_bbox = ReportedBox(i)

\* two boxes in hand, the second of higher confidence: the first is reported
C11_Witness ==
    /\ Scanned /\ Len(input.det.boxes) = 2
    /\ Candidate(1, hand_result.hand_bbox) /\ Candidate(2, hand_result.hand_bbox)
    /\ input.det.boxes[2].conf > input.det.boxes[1].conf
    /\ payload.object_bbox = ReportedBox(1)

\* C12: when a hand and wrist were detected, detected_objects lists every
\* box the object detector returned, the boxes after the matched one
\* included.
C12_AllBoxesListed ==
    Scanned =>
      /\ Len(payload.detected_objects) = Len(input.det.boxes)
      /\ \A i \in 1..Len(input.det.boxes) :
            payload.detected_objects[i] = DetectedObject(input.det.boxes[i])

\* C13: every result of the detector has a method, one of pose,
\* fallback_failed and none; without a pose model and with nothing from
\* the fallback it is none, with hand_detected false.
C13_MethodField ==
    Detected =>
      /\ "method" \in DOMAIN hand_result
      /\ hand_result.method \in {"pose", "fallback_failed", "none"}
      /\ ~pose_model /\ ~(yolo_detection_model /\ HasPerson(input.det)) =>
            ~hand_result.hand_detected /\ hand_result.method = "none"

\* the pose model is loaded and the try block around it raises: the call
\* itself, or the index of a keypoint the skeleton does not have
PoseRaises ==
    /\ Detected /\ pose_model
    /\ \/ input.pose.kind = "raise"
       \/ /\ input.pose.kind = "people" /\ Len(input.pose.people) > 0
          /\ ~({5, 6, 7, 8, 9, 10} \subseteq DOMAIN input.pose.people[1])

\* the fallback was asked: predict with conf=0.15 is among the calls
FallbackAsked == \E i \in 1..Len(calls) : calls[i] = [op |-> "predict", conf |-> 15]

\* C14: no exception of the pose model or of the fallback's detector leaves
\* the detector; after a pose failure the person fallback is tried, and when
\* it gives nothing, or raises itself, the result has hand_detected and
\* wrist_detected false.
C14_ExceptionsContained ==
    Detected =>
      /\ hand_result # Raised
      /\ {"hand_detected", "wrist_detected"} \subseteq DOMAIN hand_result
      /\ PoseRaises =>
            /\ yolo_detection_model => FallbackAsked
            /\ ~hand_result.hand_detected /\ ~hand_result.wrist_detected
            /\ ~(yolo_detection_model /\ HasPerson(input.det)) =>
                  hand_result = NotDetected("Error")
      /\ OnFallbackPath /\ input.det.kind = "raise" =>
            /\ ~hand_result.hand_detected /\ ~hand_result.wrist_detected
            /\ "method" \notin DOMAIN hand_result

\* the pose model raises, then the detector of the fallback raises
C14_Witness ==
    /\ PoseRaises /\ yolo_detection_model
    /\ input.pose.kind = "raise" /\ input.det.kind = "raise"
    /\ FallbackAsked
    /\ hand_result = NotDetected("Error")
    /\ payload.hand_detected = FALSE

S_llm == <<"l", "l", "m">>

\* the image was decoded for /classify
ItemDecoded == phase = "classify" /\ input.encoding = "ok"

\* method m was answered for the image at hand
Answered(m) == phase = "classify" /\ verdicts[m] # None

\* m takes the local path when it is "model" in any case, or missing
TakesLocalPath(m) ==
    m = <<>> \/ (Len(m) = 5 /\ \A i \in 1..5 : m[i] \in {S_model[i], <<"M", "O", "D", "E", "L">>[i]})

\* the local classifier gives the verdict for m: it is loaded and answers
\* with probabilities
LocalOutput(m) ==
    TakesLocalPath(m) /\ yolo_classification_model /\ input.local.kind = "probs"

\* the cloud is asked for m
CloudAsked(m) == genai_client /\ input.prep = "ok" /\ ~LocalOutput(m)

\* some attempt returns a text that is not empty
CloudText ==
    \E i \in 1..Len(input.cloud) :
        /\ input.cloud[i].upload = "ok"
        /\ input.cloud[i].generate = "text"
        /\ input.cloud[i].text # <<>>

\* nothing to go on for m: no local output and no cloud text
NoEvidence(m) == ~LocalOutput(m) /\ ~(CloudAsked(m) /\ CloudText)

\* C6: every answer of /classify that carries a verdict (local success,
\* local fall-through, cloud success, cloud failure, missing client,
\* exception at the endpoint) has classification Recyclable or
\* Non-Recyclable, and an answer reached with no local output and no cloud
\* text is Non-Recyclable.
C6_AlwaysACategory ==
    \A m \in Methods :
        Answered(m) =>
            LET v == verdicts[m]
            IN  /\ v.response.status = 200 => v.response.classification \in Categories
                /\ v.result # None =>
                      /\ v.result.classification \in Categories
                      /\ v.response.classification = v.result.classification
                /\ input.encoding = "bad_base64" =>
                      /\ v.response.status = 200
                      /\ v.response.classification = "Non-Recyclable"
                /\ input.encoding = "ok" /\ NoEvidence(m) =>
                      /\ v.response.status = 200
                      /\ v.response.classification = "Non-Recyclable"

\* one image answered Recyclable by the local model and, with no cloud
\* text, Non-Recyclable by the cloud path
C6_Witness ==
    /\ ItemDecoded /\ Answered(S_model) /\ Answered(S_llm)
    /\ yolo_classification_model /\ genai_client
    /\ verdicts[S_model].result.method = "yolo_model"
    /\ verdicts[S_model].response.classification = "Recyclable"
    /\ NoEvidence(S_llm)
    /\ verdicts[S_llm].response.classification = "Non-Recyclable"

\* the fallback verdict, field by field
IsFallbackVerdict(res) ==
    /\ res.classification = "Non-Recyclable"
    /\ res.item_name = <<"U", "n", "k", "n", "o", "w", "n", " ", "I", "t", "e", "m">>
    /\ res.confidence = 50
    /\ res.method = "fallback"
    /\ res.bin_color = "Black"
    /\ res.disposal_code = "NR"

\* every attempt the cloud is given raises or returns empty text
EveryAttemptFails ==
    /\ Len(input.cloud) = Len(model_names)
    /\ \A i \in 1..Len(input.cloud) :
          \/ input.cloud[i].upload = "raise"
          \/ input.cloud[i].generate = "raise"
          \/ input.cloud[i].text = <<>>

\* C7: with the local classifier unloaded and the client unset, classify
\* returns the fallback verdict (Non-Recyclable, "Unknown Item", 0.50,
\* fallback, Black, NR) for every method; and so it does when the client is
\* set, the cloud is asked, and every attempt raises or returns empty text.
C7_FallbackVerdict ==
    \A m \in Methods :
        Answered(m) /\ input.encoding = "ok" =>
            LET v == verdicts[m]
            IN  /\ ~yolo_classification_model /\ ~genai_client =>
                      /\ IsFallbackVerdict(v.result)
                      /\ v.response.classification = "Non-Recyclable"
                      /\ v.response.confidence = 50
                /\ CloudAsked(m) /\ EveryAttemptFails =>
                      /\ IsFallbackVerdict(v.result)
                      /\ v.response.classification = "Non-Recyclable"
                      /\ v.response.confidence = 50

\* the client is set, the local model gives no probabilities, and the three
\* attempts fail in three ways
C7_Witness ==
    /\ ItemDecoded /\ Answered(S_model)
    /\ yolo_classification_model /\ genai_client
    /\ input.local.kind = "no_probs" /\ input.prep = "ok"
    /\ input.cloud[1].upload = "raise"
    /\ input.cloud[2].upload = "ok" /\ input.cloud[2].generate = "raise"
    /\ input.cloud[3].upload = "ok" /\ input.cloud[3].generate = "text"
    /\ input.cloud[3].text = <<>>
    /\ IsFallbackVerdict(verdicts[S_model].result)

\* the local path does not produce the verdict
LocalFallsThrough ==
    \/ ~yolo_classification_model
    \/ input.local.kind = "no_probs"
    \/ input.local.kind = "raise"

\* C8: when the local classifier is unloaded, gives no probabilities or
\* raises, classify(image, "model") returns the verdict classify(image, m)
\* returns for any other m, the cloud answering both alike.
C8_FallThroughIsCloudPath ==
    \A m \in Methods \ {S_model} :
        Answered(S_model) /\ Answered(m) /\ input.encoding = "ok" /\ LocalFallsThrough =>
            /\ verdicts[S_model].result = verdicts[m].result
            /\ verdicts[S_model].response = verdicts[m].response

\* the loaded local model raises, the second attempt at the cloud gives a
\* text, and both methods were answered from it
C8_Witness ==
    /\ ItemDecoded /\ Answered(S_model) /\ Answered(S_llm)
    /\ yolo_classification_model /\ genai_client
    /\ input.local.kind = "raise" /\ input.prep = "ok"
    /\ Len(input.cloud) = 2
    /\ verdicts[S_model].result.method = "llm"
    /\ verdicts[S_llm].result.method = "llm"

\* the response carries the fallback verdict
CarriesFallback(r) ==
    /\ r.status = 200
    /\ r.classification = "Non-Recyclable"
    /\ r.item_name = <<"U", "n", "k", "n", "o", "w", "n", " ", "I", "t", "e", "m">>
    /\ r.confidence = 50

\* the response carries the verdict res
CarriesVerdict(r, res) ==
    /\ r.status = 200
    /\ r.classification = res.classification
    /\ r.item_name = res.item_name
    /\ r.confidence = res.confidence
    /\ r.bin_color = res.bin_color

\* the loaded local classifier raises on the local path
LocalRaises(m) ==
    TakesLocalPath(m) /\ yolo_classification_model /\ input.local.kind = "raise"

\* C16 as amended: an exception while decoding is answered with the
\* fallback verdict and no QR code; an exception in the local classifier
\* or in the cloud attempts is dealt with inside the classifier, which goes
\* on to the cloud and ends in the fallback verdict only when no attempt
\* gives a text; an exception in the QR encoder leaves the verdict as it is
\* and sets qr_code to null.  In each case the response is well formed.
C16_ExceptionsAtClassify ==
    \A m \in Methods :
        Answered(m) =>
            LET v == verdicts[m]
            IN  /\ input.encoding = "bad_base64" =>
                      /\ CarriesFallback(v.response)
                      /\ v.response.qr_code = None
                      /\ v.result = None
                /\ input.encoding = "ok" => CarriesVerdict(v.response, v.result)
                /\ input.encoding = "ok" /\ input.qr = "raise" => v.response.qr_code = None
                /\ input.encoding = "ok" /\ input.qr = "ok" => v.response.qr_code # None
                /\ input.encoding = "ok" /\ LocalRaises(m) =>
                      IF CloudAsked(m) /\ CloudText
                      THEN v.result.method = "llm"
                      ELSE IsFallbackVerdict(v.result)

\* the QR encoder raises after the local model said Recyclable
C16_Witness ==
    /\ ItemDecoded /\ Answered(S_model) /\ input.qr = "raise"
    /\ verdicts[S_model].result.method = "yolo_model"
    /\ verdicts[S_model].response.classification = "Recyclable"
    /\ verdicts[S_model].response.qr_code = None

\* C16 as claimed: an exception while decoding or while encoding the QR
\* code is answered with the fallback verdict.
C16_AlwaysFallback ==
    \A m \in Methods :
        /\ Answered(m)
        /\ \/ input.encoding = "bad_base64"
           \/ input.encoding = "ok" /\ input.qr = "raise"
        => CarriesFallback(verdicts[m].response)

(***************************************************************************)
(* Properties of the two endpoints on images that do not decode.           *)
(***************************************************************************)
\* an answer with an HTTP status of the 4xx family
IsClientError(r) == "status" \in DOMAIN r /\ r.status \in 400..499

Undecodable == input = [encoding |-> "undecodable"]

\* C15 as amended: the detection endpoint answers an undecodable image
\* with an ordinary body (hand_detected, wrist_detected and object_in_hand
\* false, message "Invalid image") and no error status; the classify
\* endpoint answers it with HTTP 400 "Invalid image", without a verdict
\* and without counting it.
C15_UndecodableImage ==
    /\ phase = "answered" /\ Undecodable =>
          /\ payload = InvalidImagePayload
          /\ ~IsClientError(payload)
          /\ hand_result = None
    /\ \A m \in Methods :
          Answered(m) /\ Undecodable =>
             /\ verdicts[m].response = [status |-> 400, detail |-> "Invalid image"]
             /\ verdicts[m].result = None
             /\ stats = InitialStats

\* the classify endpoint has refused an undecodable image
C15_Witness ==
    /\ Undecodable /\ Answered(S_model)
    /\ IsClientError(verdicts[S_model].response)
    /\ "classification" \notin DOMAIN verdicts[S_model].response

\* C15 as claimed: an undecodable image is a client error at the detection
\* endpoint and the fallback verdict, not an error, at the classify
\* endpoint.
C15_ErrorThenFallback ==
    /\ phase = "answered" /\ Undecodable => IsClientError(payload)
    /\ \A m \in Methods :
          Answered(m) /\ Undecodable =>
             /\ verdicts[m].response.status = 200
             /\ verdicts[m].response.classification = "Non-Recyclable"

(***************************************************************************)
(* Properties of the counters under requests in flight together.           *)
(***************************************************************************)
CategoryTotal(st) ==
    st.category_counts["Recyclable"] + st.category_counts["Non-Recyclable"]

\* one handler ran, and it was a request that reached the classifier
ClassifiedStep == done'.classified = done.classified + 1

\* one handler ran, for a request that failed before the classifier
UnclassifiedStep ==
    done'.completed = done.completed + 1 /\ done'.classified = done.classified

\* C18 as amended: in every order of running the waiting requests, a
\* request that reaches the classifier adds exactly one to
\* total_classifications and exactly one to exactly one category count,
\* a request that fails before it (not base64, or HTTP 400) adds nothing,
\* and no addition is lost: the total is the number of requests that
\* reached the classifier and completed.
C18_OneIncrementPerVerdict ==
    /\ [](/\ stats.total_classifications = done.classified
          /\ CategoryTotal(stats) = done.classified
          /\ stats.model_classifications + stats.llm_classifications = done.classified)
    /\ [][/\ ClassifiedStep =>
               /\ stats'.total_classifications = stats.total_classifications + 1
               /\ \E c \in Categories :
                     /\ stats'.category_counts[c] = stats.category_counts[c] + 1
                     /\ \A d \in Categories \ {c} :
                           stats'.category_counts[d] = stats.category_counts[d]
          /\ UnclassifiedStep => stats' = stats]_vars

\* three requests of both methods and both categories have completed, and
\* each was counted once
C18_Witness ==
    /\ done.completed = 3 /\ done.classified = 3 /\ pending = <<>>
    /\ stats.total_classifications = 3
    /\ stats.category_counts["Recyclable"] >= 1
    /\ stats.category_counts["Non-Recyclable"] >= 1
    /\ stats.model_classifications = 2

\* C18 as claimed: the total is the number of requests that completed.
C18_OneIncrementPerRequest == stats.total_classifications = done.completed

(***************************************************************************)
(* Properties of the cloud path.                                           *)
(***************************************************************************)
\* the loop over the models was entered and has returned
CloudRan ==
    /\ phase = "answered" /\ input # None /\ DOMAIN input = {"prep", "cloud"}
    /\ genai_client /\ input.prep = "ok"

\* the i-th attempt gives a text that is not empty
GivesText(i) ==
    /\ input.cloud[i].upload = "ok"
    /\ input.cloud[i].generate = "text"
    /\ input.cloud[i].text # <<>>

\* the attempts made, as the files of the upload calls in the order of the calls
UploadsMade == SelectSeq(calls, LAMBDA c : c.op = "upload")

GeneratesMade == SelectSeq(calls, LAMBDA c : c.op = "generate")

\* C19: the attempts are made in the order of model_names, each model at
\* most once; the next attempt is made only after one that raised or gave
\* empty text; the first attempt that gives a text ends the loop, and its
\* parsed text is the verdict.
C19_OrderedAttempts ==
    CloudRan =>
      LET texts == {i \in 1..Len(model_names) : GivesText(i)}
          last == IF texts = {} THEN Len(model_names)
                  ELSE CHOOSE i \in texts : \A j \in texts : i <= j
      IN  /\ Len(UploadsMade) = last
          /\ \A i \in 1..Len(UploadsMade) : UploadsMade[i].file = i
          /\ \A i \in 1..Len(GeneratesMade) :
                /\ GeneratesMade[i].model = model_names[GeneratesMade[i].file]
                /\ input.cloud[GeneratesMade[i].file].upload = "ok"
                /\ \A j \in 1..(i - 1) : GeneratesMade[j].file < GeneratesMade[i].file
          /\ \A i \in 1..last : input.cloud[i].upload = "ok" =>
                \E j \in 1..Len(GeneratesMade) : GeneratesMade[j].file = i
          /\ IF texts = {}
             THEN result.method = "fallback"
             ELSE result.method = "llm" /\ result.explanation = input.cloud[last].text

\* the first attempt gives empty text, the second and the third would give
\* different texts: the second is the verdict and the third is not made
C19_Witness ==
    /\ CloudRan
    /\ input.cloud[1].upload = "ok" /\ input.cloud[1].generate = "text"
    /\ input.cloud[1].text = <<>>
    /\ GivesText(2) /\ GivesText(3)
    /\ input.cloud[2].text # input.cloud[3].text
    /\ Len(UploadsMade) = 2
    /\ result.explanation = input.cloud[2].text

\* C20: every file that was uploaded has a delete issued for it after its
\* upload and before the cloud path returns, whether the attempt gave a
\* text, gave empty text or raised after the upload.
C20_UploadsDeleted ==
    CloudRan =>
      \A p \in 1..Len(calls) :
          calls[p].op = "upload" /\ input.cloud[calls[p].file].upload = "ok" =>
              \E q \in (p + 1)..Len(calls) :
                  calls[q] = [op |-> "delete", file |-> calls[p].file]

\* generate_content raises after the first upload, the second upload
\* raises, the third attempt gives a text: both files are deleted
C20_Witness ==
    /\ CloudRan
    /\ input.cloud[1].upload = "ok" /\ input.cloud[1].generate = "raise"
    /\ input.cloud[2].upload = "raise"
    /\ GivesText(3)
    /\ \E q \in 1..Len(calls) : calls[q] = [op |-> "delete", file |-> 1]
    /\ calls[Len(calls)] = [op |-> "delete", file |-> 3]

(***************************************************************************)
(* Properties of parse_gemini_response.                                    *)
(***************************************************************************)
\* c and d are the same character up to case
SameLetter(c, d) ==
    c = d \/ \E k \in 1..Len(UpperCase) : {c, d} = {UpperCase[k], LowerCase[k]}

\* word occurs in text, whatever the case of the letters
Mentions(text, word) ==
    \E i \in 1..(Len(text) - Len(word) + 1) :
        \A j \in 1..Len(word) : SameLetter(text[i + j - 1], word[j])

Parsed == phase = "answered" /\ input # None /\ DOMAIN input = {"text"}

\* C9: the parsed verdict of a non-empty text is Recyclable exactly when
\* the lower-cased text contains "recyclable" and does not contain
\* "non-recyclable", otherwise Non-Recyclable; its confidence is 0.85 and
\* its method llm.
C9_ParseRule ==
    Parsed =>
        /\ result.classification = "Recyclable" <=>
              (Mentions(input.text, S_recyclable) /\ ~Mentions(input.text, S_non_recyclable))
        /\ result.classification # "Recyclable" => result.classification = "Non-Recyclable"
        /\ result.confidence = 85
        /\ result.method = "llm"

\* a text with "recyclable" and, in capitals, "non-recyclable"
C9_Witness ==
    /\ Parsed
    /\ Mentions(input.text, S_non_recyclable)
    /\ ~Contains(input.text, S_non_recyclable)
    /\ Mentions(SubSeq(input.text, 1, Len(S_recyclable)), S_recyclable)
    /\ result.classification = "Non-Recyclable"

(***************************************************************************)
(* Properties of the observers.                                            *)
(***************************************************************************)
\* res has every field of a verdict
CompleteVerdict(res) ==
    /\ res # None
    /\ {"classification", "confidence", "item_name", "bin_color", "explanation"}
          \subseteq DOMAIN res
    /\ res.classification \in Categories

\* this step is a classify handler that added a notification
NotificationAdded == Len(tasks') > Len(tasks)

\* this step belongs to a notify run or to a websocket handler
ObserverStep ==
    \/ Len(tasks') = Len(tasks) /\ tasks' # tasks
    \/ sockets' # sockets
    \/ connected_websockets' # connected_websockets

\* C21: a notification is added only by a handler that has a complete
\* verdict, and it carries that verdict; the handler returns its response
\* with the notification still waiting to start, and the response is the
\* one the handler gives when nobody observes; no step of a notify run or
\* of a websocket handler, whatever the sends do, changes the response.
C21_NotifyAfterResponse ==
    /\ [](\A k \in 1..Len(tasks) : CompleteVerdict(tasks[k].message.data))
    /\ [][NotificationAdded =>
            /\ Len(tasks') = Len(tasks) + 1
            /\ SubSeq(tasks', 1, Len(tasks)) = tasks
            /\ tasks'[Len(tasks')].pc = "queued"
            /\ tasks'[Len(tasks')].message.data = result'
            /\ CompleteVerdict(result')
            /\ CarriesVerdict(response', result')]_vars
    /\ [][done' # done =>
            response' = classify_waste(stats, yolo_classification_model, genai_client,
                                       <<>>, input', S_model).response]_vars
    /\ [][ObserverStep => response' = response /\ result' = result /\ stats' = stats]_vars

\* a verdict was returned, and the notification of it then ended in an
\* exception while an observer was going away
C21_Witness ==
    /\ done.completed = 1
    /\ Len(tasks) = 1
    /\ tasks[1].pc = "raised"
    /\ CarriesVerdict(response, tasks[1].message.data)
    /\ response.classification = "Recyclable"
    /\ \E ws \in Sockets : sockets[ws] = "closed"

(***************************************************************************)
(* Properties of map_class_to_category.                                    *)
(***************************************************************************)
\* the local path has answered for the class name in hand
Mapped == phase = "answered" /\ "words" \in DOMAIN input

\* a word of the class name holds a keyword of the recyclable table
NamesRecyclable == \E i \in 1..Len(input.words) : input.words[i].rec

\* a word of the class name holds a keyword of the non-recyclable table
NamesNonRecyclable == \E i \in 1..Len(input.words) : input.words[i].non

\* the category an unmatched class gets: recyclable strictly above 0.7
UnmatchedCategory ==
    IF input.confidence > 70 THEN "Recyclable" ELSE "Non-Recyclable"

\* C22 as amended: a class name with a recyclable keyword maps to
\* Recyclable; one with a non-recyclable keyword and no recyclable keyword
\* maps to Non-Recyclable; one with neither maps to Recyclable if its
\* confidence is above 0.7 and to Non-Recyclable otherwise, 0.7 included.
C22_MappingRule ==
    Mapped =>
       /\ NamesRecyclable => result.classification = "Recyclable"
       /\ NamesNonRecyclable /\ ~NamesRecyclable => result.classification = "Non-Recyclable"
       /\ ~NamesRecyclable /\ ~NamesNonRecyclable => result.classification = UnmatchedCategory
       /\ result.bin_color = CategoryColor(result.classification)
       /\ result.confidence = input.confidence

\* "shoe" at exactly 0.7 went to Non-Recyclable
C22_Witness ==
    /\ Mapped
    /\ input.class_name = <<"s", "h", "o", "e">>
    /\ input.confidence = 70
    /\ result.classification = "Non-Recyclable"

\* C22 as written: every class name with a recyclable keyword maps to
\* Recyclable and every class name with a non-recyclable keyword maps to
\* Non-Recyclable; the others go by the confidence.
C22_KeywordDecides ==
    Mapped =>
       /\ NamesRecyclable => result.classification = "Recyclable"
       /\ NamesNonRecyclable => result.classification = "Non-Recyclable"
       /\ ~NamesRecyclable /\ ~NamesNonRecyclable => result.classification = UnmatchedCategory

\* C30: a class name with a keyword of each table maps to Recyclable,
\* whatever the confidence.
C30_RecyclableFirst ==
    Mapped /\ NamesRecyclable /\ NamesNonRecyclable =>
       /\ result.classification = "Recyclable"
       /\ result.bin_color = "Green"

\* "food container" at 0.69 went to Recyclable
C30_Witness ==
    /\ Mapped
    /\ input.class_name = <<"f", "o", "o", "d", " ", "c", "o", "n", "t", "a", "i", "n", "e", "r">>
    /\ input.confidence = 69
    /\ result.classification = "Recyclable"

(***************************************************************************)
(* Properties of the detector on skeletons that are too short, and of the  *)
(* order of its stages.                                                    *)
(***************************************************************************)
\* the pose model ran and its first skeleton stops before the right wrist
ShortSkeleton ==
    /\ Detected /\ pose_model
    /\ input.pose.kind = "people" /\ Len(input.pose.people) > 0
    /\ RIGHT_WRIST \notin DOMAIN input.pose.people[1]

\* C23: on a first skeleton without the keypoint of index 10 the detector
\* fails with an error that leaves it, and returns no HandDetectionResult,
\* neither the fallback's nor a not-detected one.
C23_MalformedSkeletonSurfaces ==
    ShortSkeleton =>
       /\ hand_result = Raised
       /\ "hand_detected" \notin DOMAIN hand_result

\* the handler's own detection step ran: predict with conf=0.3 is among the calls
ObjectStepRan == \E i \in 1..Len(calls) : calls[i] = [op |-> "predict", conf |-> 30]

\* the object detector was called, by the handler or by the person fallback
DetectorCalled == \E i \in 1..Len(calls) : calls[i].op = "predict"

\* the detector found no hand or no wrist
NoHandOrWrist == Detected /\ (~hand_result.hand_detected \/ ~hand_result.wrist_detected)

\* the payload says no object, with null crop and box and an empty list
EmptyHanded ==
    /\ {"object_in_hand", "cropped_image", "object_bbox", "detected_objects"}
          \subseteq DOMAIN payload
    /\ payload.object_in_hand = FALSE
    /\ payload.cropped_image = None
    /\ payload.object_bbox = None
    /\ payload.detected_objects = <<>>

\* C24 as amended: the handler's detection step (predict with conf=0.3)
\* runs only when the detector returned hand_detected and wrist_detected
\* true; when either is false the step is not run, the only call to the
\* object detector for the request is the person fallback's, and the
\* payload says no object with null crop, null box and an empty list.
C24_ObjectStepAfterHand ==
    Detected =>
       /\ ObjectStepRan => hand_result.hand_detected /\ hand_result.wrist_detected
       /\ NoHandOrWrist =>
             /\ ~ObjectStepRan
             /\ \A i \in 1..Len(calls) :
                    calls[i].op = "predict" => calls[i] = [op |-> "predict", conf |-> 15]
             /\ EmptyHanded
             /\ payload.hand_detected = hand_result.hand_detected
             /\ payload.wrist_detected = hand_result.wrist_detected

\* no wrist was accepted on a frame where the detector has boxes to give:
\* the fallback asked the detector, the handler did not
C24_Witness ==
    /\ NoHandOrWrist /\ yolo_detection_model
    /\ input.det.kind = "boxes" /\ Len(input.det.boxes) > 0
    /\ FallbackAsked /\ ~ObjectStepRan
    /\ EmptyHanded

\* C24 as written: when hand_detected or wrist_detected is false the
\* object detector is not invoked for the request at all.
C24_DetectorNotInvoked ==
    Detected =>
       /\ ObjectStepRan => hand_result.hand_detected /\ hand_result.wrist_detected
       /\ NoHandOrWrist => ~DetectorCalled /\ EmptyHanded

(***************************************************************************)
(* Properties of the crop.                                                 *)
(***************************************************************************)
\* the object-in-hand step has run on the box in hand
ScannedOne == phase = "answered" /\ payload # None /\ Len(input.det.boxes) = 1

\* x1, y1, x2, y2 of the box, in whole pixels
TheBox == [i \in 1..4 |-> ToInt(input.det.boxes[1].xyxy[i])]

\* C25: in a frame of any size, for a hand region inside the frame and a
\* box with x1 <= x2 and y1 <= y2, a payload with object_in_hand true
\* carries a crop, the rectangle [max(0, x1 - 20), min(w, x2 + 20)] x
\* [max(0, y1 - 20), min(h, y2 + 20)], which is not empty; a payload with
\* object_in_hand false has cropped_image and object_bbox null.
C25_CropWithMargin ==
    ScannedOne =>
       /\ payload.object_in_hand =>
             /\ payload.cropped_image # None
             /\ payload.cropped_image =
                   [x1 |-> Max(0, TheBox[1] - 20), y1 |-> Max(0, TheBox[2] - 20),
                    x2 |-> Min(input.w, TheBox[3] + 20), y2 |-> Min(input.h, TheBox[4] + 20)]
             /\ payload.cropped_image.x1 < payload.cropped_image.x2
             /\ payload.cropped_image.y1 < payload.cropped_image.y2
             /\ payload.object_bbox # None
       /\ ~payload.object_in_hand =>
             /\ payload.cropped_image = None
             /\ payload.object_bbox = None

\* a box of no width or height on the right and bottom edges of the frame
\* was in hand, and its crop is the 20 pixels before the corner
C25_Witness ==
    /\ ScannedOne
    /\ TheBox = <<input.w, input.h, input.w, input.h>>
    /\ payload.object_in_hand
    /\ payload.cropped_image = [x1 |-> input.w - 20, y1 |-> input.h - 20,
                                x2 |-> input.w, y2 |-> input.h]

(***************************************************************************)
(* Properties of a classification call by call.                            *)
(***************************************************************************)
\* the calls made so far to op
CallsTo(op) == Cardinality({i \in 1..Len(calls) : calls[i].op = op})

\* a classification is under way or has returned
Classifying == position # None

\* the handler has returned
Returned == position # None /\ position.at = "done"

\* what the handler gives for the image when it runs in one piece
InOnePiece ==
    classify_waste(InitialStats, yolo_classification_model, genai_client, <<>>,
                   input, position.method)

\* the handler has returned a verdict after at most one call to the local
\* classifier and three attempts on the cloud, as it does in one piece
ReturnedInBounds ==
    /\ Returned
    /\ CompleteVerdict(result) /\ CarriesVerdict(response, result)
    /\ CallsTo("classify") <= 1
    /\ CallsTo("upload") <= Len(model_names)
    /\ CallsTo("generate") <= Len(model_names)
    /\ \E whole \in {InOnePiece} :
          /\ result = whole.result
          /\ response = whole.response
          /\ calls \o <<[op |-> "qr"]>> = whole.calls

\* C26: when every call to a collaborator returns or raises, a classify
\* request on a decoded image returns a verdict, from the local model, from
\* the cloud or the fallback; it calls the local classifier at most once and
\* makes at most three attempts on the cloud, and what it returns and the
\* calls it made are those of the handler run in one piece.
C26_RunsToVerdict == Classifying ~> ReturnedInBounds

\* the local model raised, the three attempts on the cloud failed, and the
\* request returned the fallback verdict
C26_Witness ==
    /\ Returned
    /\ CallsTo("classify") = 1
    /\ CallsTo("upload") = 3
    /\ CallsTo("generate") = 3
    /\ result = get_fallback_classification
    /\ CarriesFallback(response)

(***************************************************************************)
(* Properties of the counters between requests.                            *)
(***************************************************************************)
\* one handler ran and answered with HTTP 400 or from its except branch
RejectedStep ==
    /\ done'.completed = done.completed + 1
    /\ response' \in {InvalidImageResponse, ExceptionResponse}
    /\ result' = None

\* C27: between requests, whatever requests came before,
\* total_classifications is model_classifications + llm_classifications
\* and is the sum of the category counts; a request answered with the
\* invalid-image error or with the exception fallback changes no counter.
C27_CountersAgree ==
    /\ [](/\ stats.total_classifications
               = stats.model_classifications + stats.llm_classifications
          /\ stats.total_classifications = CategoryTotal(stats))
    /\ [][RejectedStep => stats' = stats]_vars

\* a verdict, then two requests that failed before the classifier, the
\* last one in the except branch: one classification is counted
C27_Witness ==
    /\ done.completed = 3 /\ done.classified = 1 /\ pending = <<>>
    /\ response = ExceptionResponse
    /\ stats.total_classifications = 1
    /\ stats.model_classifications + stats.llm_classifications = 1
    /\ CategoryTotal(stats) = 1

(***************************************************************************)
(* Properties of the list of observers under interleaving.                 *)
(***************************************************************************)
\* no handler and no notify run is under way
Quiescent ==
    /\ \A k \in 1..Len(tasks) : tasks[k].pc \in {"returned", "raised"}
    /\ \A ws \in Sockets : sockets[ws] # "closing"

\* a remove of a socket that was no longer in the list
RemovedTwice ==
    \/ \E k \in 1..Len(tasks) : tasks[k].pc = "raised"
    \/ \E ws \in Sockets : sockets[ws] = "failed"

\* once all is quiet the list holds open sockets only
QuietListIsOpen ==
    Quiescent =>
       \A i \in 1..Len(connected_websockets) : sockets[connected_websockets[i]] = "open"

\* C28: under every interleaving of connects, disconnects and notify runs
\* no socket is removed from connected_websockets twice, so that neither
\* notify nor the disconnect handler raises, and once all handlers are
\* quiescent the list holds no socket that disconnected or failed a send.
C28_RemovedAtMostOnce == ~RemovedTwice /\ QuietListIsOpen

(***************************************************************************)
(* Properties of the detector stage by stage.                              *)
(***************************************************************************)
\* an invocation of the detector is under way or has just returned
InDetector == phase \in {"stages", "answered"} /\ input # None /\ position # None

\* the pose model is loaded and gives the frame an accepted wrist
PoseAccepts ==
    /\ pose_model
    /\ PoseStage(input.pose, input.w, input.h).kind = "return"

\* the calls made to the object detector so far
DetectorCalls == CallsTo("predict")

\* C29: within one invocation of the detector the person fallback is
\* invoked at most once; it is invoked only when the pose model is not
\* loaded or after the pose model was asked and gave no accepted wrist or
\* raised, never on a frame with an accepted wrist; a pose result is
\* returned without a call to the object detector; and the stages end in
\* what detect_hand_wrist returns.
C29_FallbackOnceAfterPose ==
    InDetector =>
       /\ position.fallbacks <= 1
       /\ DetectorCalls <= position.fallbacks
       /\ (position.at = "fallback" \/ position.fallbacks > 0) =>
             /\ ~PoseAccepts
             /\ position.why \in {"unavailable", "weak", "raise"}
             /\ pose_model => calls # <<>> /\ calls[1] = [op |-> "pose"]
       /\ (phase = "answered" /\ IsPose(hand_result)) =>
             /\ position.fallbacks = 0
             /\ calls = <<[op |-> "pose"]>>
       /\ phase = "answered" =>
             \E hr \in {detect_hand_wrist(pose_model, yolo_detection_model, input)} :
                hand_result = hr.value /\ calls = hr.calls

\* a weak skeleton, then the fallback, which found a person
C29_Witness ==
    /\ InDetector /\ phase = "answered"
    /\ pose_model /\ position.why = "weak" /\ position.fallbacks = 1
    /\ calls = <<[op |-> "pose"], [op |-> "predict", conf |-> 15]>>
    /\ hand_result = FallbackFailed

====
